---- MODULE Spec2Model ----
(***************************************************************************)
(* Verification model of the tokenizer service (services/tokenizer) and of *)
(* the n-gram extractor built on it (analyzers/ngrams/ngrams_base).        *)
(*                                                                         *)
(* A text is a sequence of cells <<cp, o>>: cp is the Unicode code point   *)
(* of the character, o is the index the character had in the text handed   *)
(* to tokenize (a history value the code does not keep; every slicing,     *)
(* stripping and concatenation of the code moves it along with the         *)
(* character).  Str(t) is the string proper.                               *)
(***************************************************************************)
EXTENDS Integers, Sequences, FiniteSets, TLC

\* ------------------------------------------------------------------------
\* Strings
\* ------------------------------------------------------------------------

Str(t) == [i \in DOMAIN t |-> t[i][1]]

Origins(t) == [i \in DOMAIN t |-> t[i][2]]

Cells(s) == [i \in DOMAIN s |-> <<s[i], i>>]

InRanges(cp, rs) == \E j \in DOMAIN rs : rs[j][1] <= cp /\ cp <= rs[j][2]

\* str.isspace / \s over the modelled characters
IsSpace(cp) ==
    \/ (9 <= cp /\ cp <= 13) \/ (28 <= cp /\ cp <= 32)
    \/ cp = 133 \/ cp = 160 \/ cp = 5760
    \/ (8192 <= cp /\ cp <= 8202)
    \/ cp = 8232 \/ cp = 8233 \/ cp = 8239 \/ cp = 8287 \/ cp = 12288

\* str.lower / str.upper on the ASCII letters
Lower(cp) == IF 65 <= cp /\ cp <= 90 THEN cp + 32 ELSE cp

Upper(cp) == IF 97 <= cp /\ cp <= 122 THEN cp - 32 ELSE cp

\* str.isalpha: letters of the scripts the patterns and the tokenizer name
IsAlpha(cp) ==
    InRanges(cp, << <<65, 90>>, <<97, 122>>, <<192, 214>>, <<216, 246>>,
                    <<248, 591>>, <<1568, 1610>>, <<3585, 3632>>,
                    <<3713, 3714>>, <<3716, 3716>>, <<3718, 3722>>,
                    <<3724, 3747>>, <<3749, 3749>>, <<3751, 3760>>,
                    <<12353, 12438>>, <<12449, 12538>>, <<13312, 19903>>,
                    <<19968, 40959>>, <<44032, 55203>> >>)

IsDigit(cp) == 48 <= cp /\ cp <= 57

\* \w of a str pattern: alphanumerics and the underscore
IsWord(cp) == IsAlpha(cp) \/ IsDigit(cp) \/ cp = 95

RECURSIVE Concat(_)
Concat(ss) == IF ss = <<>> THEN <<>> ELSE Head(ss) \o Concat(Tail(ss))

RECURSIVE LStrip(_)
LStrip(t) == IF t # <<>> /\ IsSpace(t[1][1]) THEN LStrip(Tail(t)) ELSE t

RECURSIVE RStrip(_)
RStrip(t) ==
    IF t # <<>> /\ IsSpace(t[Len(t)][1]) THEN RStrip(SubSeq(t, 1, Len(t) - 1))
    ELSE t

\* str.strip()
\* nothing is stripped
NotStripped(t) == t

Strip(t) == LStrip(RStrip(t))

\* ------------------------------------------------------------------------
\* Regular expressions: the constructs the patterns use, with the matching
\* order of a backtracking engine (alternatives left to right, greedy
\* repetition), all patterns being compiled with IGNORECASE.
\* ------------------------------------------------------------------------

Inf == 0 - 1

CC(rs) == [k |-> "cc", rs |-> rs, neg |-> FALSE]

NotCC(rs) == [k |-> "cc", rs |-> rs, neg |-> TRUE]

Ch(cp) == CC(<< <<cp, cp>> >>)

Cat(rs) == [k |-> "cat", rs |-> rs]

Alt(rs) == [k |-> "alt", rs |-> rs]

Rep(r, lo, hi) == [k |-> "rep", r |-> r, lo |-> lo, hi |-> hi]

Star(r) == Rep(r, 0, Inf)

Plus(r) == Rep(r, 1, Inf)

Opt(r) == Rep(r, 0, 1)

WordBoundary == [k |-> "wb"]

NotFollowedBy(r) == [k |-> "nla", r |-> r]

Lit(s) == Cat([i \in DOMAIN s |-> Ch(s[i])])

WS ==
    << <<9, 13>>, <<28, 32>>, <<133, 133>>, <<160, 160>>, <<5760, 5760>>,
       <<8192, 8202>>, <<8232, 8233>>, <<8239, 8239>>, <<8287, 8287>>,
       <<12288, 12288>> >>

NonSpace == NotCC(WS)

Digit == CC(<< <<48, 57>> >>)

WordChar == [k |-> "w"]

\* does code point cp match the character class r (case-insensitively)
InClass(r, cp) ==
    IF r.k = "w" THEN IsWord(cp)
    ELSE LET hit == \/ InRanges(cp, r.rs)
                    \/ InRanges(Lower(cp), r.rs)
                    \/ InRanges(Upper(cp), r.rs)
         IN  IF r.neg THEN ~hit ELSE hit

RECURSIVE Dedupe(_, _)
Dedupe(s, seen) ==
    IF s = <<>> THEN <<>>
    ELSE IF Head(s) \in seen THEN Dedupe(Tail(s), seen)
         ELSE <<Head(s)>> \o Dedupe(Tail(s), seen \cup {Head(s)})

\* \b at position i of t (between t[i-1] and t[i])
AtWordBoundary(t, i) ==
    LET before == i > 1 /\ IsWord(t[i - 1][1])
        after  == i <= Len(t) /\ IsWord(t[i][1])
    IN  before # after

RECURSIVE Ends(_, _, _), CatEnds(_, _, _), AltEnds(_, _, _),
          RepEnds(_, _, _, _, _), Each(_, _, _, _, _, _)

\* The end positions of the matches of r that start at position i of t, in
\* the order in which a backtracking matcher tries them.
Ends(r, t, i) ==
    CASE r.k \in {"cc", "w"} ->
            IF i <= Len(t) /\ InClass(r, t[i][1]) THEN <<i + 1>> ELSE <<>>
      [] r.k = "cat" -> CatEnds(r.rs, t, i)
      [] r.k = "alt" -> AltEnds(r.rs, t, i)
      [] r.k = "rep" -> RepEnds(r.r, r.lo, r.hi, t, i)
      [] r.k = "wb"  -> IF AtWordBoundary(t, i) THEN <<i>> ELSE <<>>
      [] r.k = "nla" -> IF Ends(r.r, t, i) = <<>> THEN <<i>> ELSE <<>>

\* for each end e in es, in order: the matches of the continuation from e
Each(es, kind, rs, lo, hi, t) ==
    IF es = <<>> THEN <<>>
    ELSE LET e == Head(es)
             here == IF kind = "cat" THEN CatEnds(rs, t, e)
                     ELSE RepEnds(rs, lo, hi, t, e)
         IN  here \o Each(Tail(es), kind, rs, lo, hi, t)

CatEnds(rs, t, i) ==
    IF rs = <<>> THEN <<i>>
    ELSE Dedupe(Each(Ends(Head(rs), t, i), "cat", Tail(rs), 0, 0, t), {})

AltEnds(rs, t, i) ==
    IF rs = <<>> THEN <<>>
    ELSE Dedupe(Ends(Head(rs), t, i) \o AltEnds(Tail(rs), t, i), {})

RepEnds(r, lo, hi, t, i) ==
    LET step == SelectSeq(Ends(r, t, i), LAMBDA e : e > i)
        more == IF hi = 0 THEN <<>>
                ELSE Each(step, "rep", r, IF lo > 0 THEN lo - 1 ELSE 0,
                          IF hi > 0 THEN hi - 1 ELSE hi, t)
    IN  Dedupe(more \o (IF lo = 0 THEN <<i>> ELSE <<>>), {})

\* pattern.match at position i: the end of the match, or 0
MatchAt(r, t, i) == LET es == Ends(r, t, i) IN IF es = <<>> THEN 0 ELSE Head(es)

\* the spans <<start, end>> of pattern.finditer(t) from position i on
RECURSIVE FindSpans(_, _, _)
FindSpans(r, t, i) ==
    IF i > Len(t) THEN <<>>
    ELSE LET e == MatchAt(r, t, i)
         IN  IF e = 0 THEN FindSpans(r, t, i + 1)
             ELSE IF e = i THEN FindSpans(r, t, i + 1)
             ELSE << <<i, e>> >> \o FindSpans(r, t, e)

\* pattern.findall(t)
FindAll(r, t) ==
    LET sp == FindSpans(r, t, 1)
    IN  [j \in DOMAIN sp |-> SubSeq(t, sp[j][1], sp[j][2] - 1)]

\* pattern.sub(" ", t): each match replaced by one space
RECURSIVE SubSpace(_, _, _)
SubSpace(r, t, i) ==
    IF i > Len(t) THEN <<>>
    ELSE LET e == MatchAt(r, t, i)
         IN  IF e = 0 \/ e = i THEN <<t[i]>> \o SubSpace(r, t, i + 1)
             ELSE << <<32, t[i][2]>> >> \o SubSpace(r, t, e)

\* re.match(pattern, t) with the pattern anchored at both ends
FullMatch(r, t) == (Len(t) + 1) \in { Ends(r, t, 1)[j] : j \in DOMAIN Ends(r, t, 1) }

\* ------------------------------------------------------------------------
\* basic/patterns.py: the pattern constants
\* ------------------------------------------------------------------------

AsciiLetter == CC(<< <<97, 122>>, <<65, 90>> >>)

AsciiAlnum == CC(<< <<97, 122>>, <<65, 90>>, <<48, 57>> >>)

AsciiAlnumHyphen == CC(<< <<97, 122>>, <<65, 90>>, <<48, 57>>, <<45, 45>> >>)

\* [a-zA-Z0-9](?:[a-zA-Z0-9-]*[a-zA-Z0-9])?
DomainLabel == Cat(<< AsciiAlnum, Opt(Cat(<< Star(AsciiAlnumHyphen), AsciiAlnum >>)) >>)

\* https?://\S+ | www\.\S+ | label(\.label)*\.[a-zA-Z]{2,}(?:/\S*)?
URL_PATTERN ==
    Alt(<< Cat(<< Lit(<<104, 116, 116, 112>>), Opt(Ch(115)),
                  Lit(<<58, 47, 47>>), Plus(NonSpace) >>),
           Cat(<< Lit(<<119, 119, 119>>), Ch(46), Plus(NonSpace) >>),
           Cat(<< DomainLabel, Star(Cat(<< Ch(46), DomainLabel >>)), Ch(46),
                  Rep(AsciiLetter, 2, Inf),
                  Opt(Cat(<< Ch(47), Star(NonSpace) >>)) >>) >>)

\* \b[A-Za-z0-9._%+-]+@[A-Za-z0-9.-]+\.[A-Z|a-z]{2,}\b
EMAIL_PATTERN ==
    Cat(<< WordBoundary,
           Plus(CC(<< <<65, 90>>, <<97, 122>>, <<48, 57>>, <<46, 46>>,
                      <<95, 95>>, <<37, 37>>, <<43, 43>>, <<45, 45>> >>)),
           Ch(64),
           Plus(CC(<< <<65, 90>>, <<97, 122>>, <<48, 57>>, <<46, 46>>,
                      <<45, 45>> >>)),
           Ch(46),
           Rep(CC(<< <<65, 90>>, <<124, 124>>, <<97, 122>> >>), 2, Inf),
           WordBoundary >>)

\* @[\w]+
MENTION_PATTERN == Cat(<< Ch(64), Plus(WordChar) >>)

\* #[\w]+
HASHTAG_PATTERN == Cat(<< Ch(35), Plus(WordChar) >>)

\* [.,]\d+
SeparatorGroup == Cat(<< CC(<< <<46, 46>>, <<44, 44>> >>), Plus(Digit) >>)

\* \d+(?:st|nd|rd|th)(?!\w) | [$ euro pound yen rupee rouble yen cent]\d+(?:[.,]\d+)*
\*   | \d+(?:[.,]\d+)+ | \d+\.?\d*%?
NUMERIC_PATTERN ==
    Alt(<< Cat(<< Plus(Digit),
                  Alt(<< Lit(<<115, 116>>), Lit(<<110, 100>>),
                         Lit(<<114, 100>>), Lit(<<116, 104>>) >>),
                  NotFollowedBy(WordChar) >>),
           Cat(<< CC(<< <<36, 36>>, <<8364, 8364>>, <<163, 163>>, <<165, 165>>,
                        <<8377, 8377>>, <<8381, 8381>>, <<162, 162>> >>),
                  Plus(Digit), Star(SeparatorGroup) >>),
           Cat(<< Plus(Digit), Plus(SeparatorGroup) >>),
           Cat(<< Plus(Digit), Opt(Ch(46)), Star(Digit), Opt(Ch(37)) >>) >>)

\* \$[A-Z]{1,5}\b
CASHTAG_PATTERN == Cat(<< Ch(36), Rep(CC(<< <<65, 90>> >>), 1, 5), WordBoundary >>)

EMOJI_PATTERN ==
    Alt(<< CC(<< <<128512, 128591>> >>),    \* 1F600-1F64F emoticons
           CC(<< <<127744, 128511>> >>),    \* 1F300-1F5FF misc symbols
           CC(<< <<128640, 128767>> >>),    \* 1F680-1F6FF transport
           CC(<< <<127456, 127487>> >>),    \* 1F1E0-1F1FF flags
           CC(<< <<9984, 10175>> >>),       \* 2700-27BF dingbats
           CC(<< <<129280, 129535>> >>),    \* 1F900-1F9FF supplemental
           CC(<< <<9728, 9983>> >>) >>)     \* 2600-26FF misc symbols

CJK_PATTERN ==
    Alt(<< CC(<< <<19968, 40959>> >>),      \* 4E00-9FFF CJK unified
           CC(<< <<13312, 19903>> >>),      \* 3400-4DBF extension A
           CC(<< <<12352, 12447>> >>),      \* 3040-309F hiragana
           CC(<< <<12448, 12543>> >>),      \* 30A0-30FF katakana
           CC(<< <<44032, 55215>> >>) >>)   \* AC00-D7AF hangul syllables

ARABIC_PATTERN ==
    Alt(<< CC(<< <<1536, 1791>> >>), CC(<< <<1872, 1919>> >>),
           CC(<< <<2208, 2303>> >>) >>)

THAI_PATTERN == CC(<< <<3584, 3711>> >>)

SEA_PATTERN ==
    Alt(<< CC(<< <<6016, 6143>> >>), CC(<< <<4096, 4255>> >>),
           CC(<< <<6656, 6687>> >>), CC(<< <<6912, 7039>> >>) >>)

\* - ' right-single-quote backtick
WordJoiner == CC(<< <<45, 45>>, <<39, 39>>, <<8217, 8217>>, <<96, 96>> >>)

\* [a-zA-Z]+(?:\.[a-zA-Z]+)+\.? | [a-zA-Z]+(?:[-'..][a-zA-Z]+)*[-'..]?
LATIN_WORD_PATTERN ==
    Alt(<< Cat(<< Plus(AsciiLetter),
                  Plus(Cat(<< Ch(46), Plus(AsciiLetter) >>)), Opt(Ch(46)) >>),
           Cat(<< Plus(AsciiLetter),
                  Star(Cat(<< WordJoiner, Plus(AsciiLetter) >>)),
                  Opt(WordJoiner) >>) >>)

KOREAN_WORD_PATTERN == Plus(CC(<< <<44032, 55215>> >>))

\* a word is any run of word characters
WordOfAnyScripts == Plus(WordChar)

WORD_PATTERN ==
    Alt(<< LATIN_WORD_PATTERN, KOREAN_WORD_PATTERN, Plus(CJK_PATTERN),
           Plus(ARABIC_PATTERN), Plus(THAI_PATTERN), Plus(SEA_PATTERN) >>)

\* [.!?;:,\-\(\)\[\]{}"\']
PUNCTUATION_PATTERN ==
    CC(<< <<46, 46>>, <<33, 33>>, <<63, 63>>, <<59, 59>>, <<58, 58>>,
          <<44, 44>>, <<45, 45>>, <<40, 41>>, <<91, 91>>, <<93, 93>>,
          <<123, 123>>, <<125, 125>>, <<34, 34>>, <<39, 39>> >>)

\* TokenizerPatterns._compile_patterns / get_pattern
get_pattern(name) ==
    CASE name = "url" -> URL_PATTERN
      [] name = "email" -> EMAIL_PATTERN
      [] name = "mention" -> MENTION_PATTERN
      [] name = "hashtag" -> HASHTAG_PATTERN
      [] name = "cashtag" -> CASHTAG_PATTERN
      [] name = "emoji" -> EMOJI_PATTERN
      [] name = "numeric" -> NUMERIC_PATTERN
      [] name = "word" -> WORD_PATTERN
      [] name = "punctuation" -> PUNCTUATION_PATTERN

\* re.compile(r"\S+", re.IGNORECASE), the pattern of last resort
\* (patterns.py:239-241)
CatchAll == <<"\\S+">>

\* "(?:" + "|".join(parts) + ")" compiled: parts is the list of the names of
\* the sub-patterns joined
Compiled(parts) ==
    IF parts = CatchAll THEN Plus(NonSpace)
    ELSE Alt([j \in DOMAIN parts |-> get_pattern(parts[j])])

\* ------------------------------------------------------------------------
\* core/types.py: TokenizerConfig
\* ------------------------------------------------------------------------

CaseHandling == {"preserve", "lowercase", "uppercase", "normalize"}

\* None, as a value of a text argument
None == << <<0 - 1, 0>> >>

\* TokenizerConfig() with its declared defaults.  max_token_length is <<>>
\* for None and <<n>> for the integer n.  The class declares no
\* extract_cashtags: the attribute is undefined (<<>>) on every instance of
\* TokenizerConfig itself and defined (<<b>>) only on an instance of a
\* subclass that declares it.
DefaultConfig ==
    [ fallback_language_family |-> "mixed",
      include_punctuation |-> FALSE,
      include_numeric |-> TRUE,
      include_emoji |-> FALSE,
      case_handling |-> "lowercase",
      normalize_unicode |-> TRUE,
      extract_hashtags |-> TRUE,
      extract_mentions |-> TRUE,
      include_urls |-> TRUE,
      include_emails |-> TRUE,
      min_token_length |-> 1,
      max_token_length |-> <<>>,
      strip_whitespace |-> TRUE,
      extract_cashtags |-> <<>> ]

\* the fields the class declares
DeclaredFields == (DOMAIN DefaultConfig) \ {"extract_cashtags"}

\* TokenizerConfig(**kwargs): a declared field takes the value of its
\* keyword; the class sets no model_config, so a keyword that names no
\* declared field is ignored
TokenizerConfig(kwargs) ==
    [f \in DOMAIN DefaultConfig |->
        IF f \in DeclaredFields /\ f \in DOMAIN kwargs THEN kwargs[f]
        ELSE DefaultConfig[f]]

\* ------------------------------------------------------------------------
\* core/base.py: AbstractTokenizer
\* ------------------------------------------------------------------------

\* no normalization
NotNormalized(t) == t

\* unicodedata.normalize("NFKC", text) on the modelled characters: the
\* fullwidth forms FF01-FF5E become ASCII, the ideographic space and the
\* other compatibility spaces become a space, and
\* a, e, A or E followed by the combining acute accent composes
RECURSIVE Nfkc(_)
Nfkc(t) ==
    IF t = <<>> THEN <<>>
    ELSE LET c == t[1][1]
             o == t[1][2]
             acute == Len(t) >= 2 /\ t[2][1] = 769
         IN  IF acute /\ c \in {97, 65} THEN << <<c + 128, o>> >> \o Nfkc(SubSeq(t, 3, Len(t)))
             ELSE IF acute /\ c \in {101, 69} THEN << <<c + 132, o>> >> \o Nfkc(SubSeq(t, 3, Len(t)))
             ELSE IF 65281 <= c /\ c <= 65374 THEN << <<c - 65248, o>> >> \o Nfkc(Tail(t))
             ELSE IF c = 12288 \/ c = 160 \/ (8192 <= c /\ c <= 8202)
                       \/ c = 8239 \/ c = 8287
                  THEN << <<32, o>> >> \o Nfkc(Tail(t))
             ELSE << t[1] >> \o Nfkc(Tail(t))

\* str.lower() / str.upper(): ASCII and Latin-1 letters
LowerChar(cp) ==
    IF (65 <= cp /\ cp <= 90) \/ (192 <= cp /\ cp <= 222 /\ cp # 215) THEN cp + 32 ELSE cp

UpperChar(cp) ==
    IF (97 <= cp /\ cp <= 122) \/ (224 <= cp /\ cp <= 254 /\ cp # 247) THEN cp - 32 ELSE cp

LowerText(t) == [i \in DOMAIN t |-> <<LowerChar(t[i][1]), t[i][2]>>]

UpperText(t) == [i \in DOMAIN t |-> <<UpperChar(t[i][1]), t[i][2]>>]

_preprocess_text(text, config) ==
    IF text = <<>> THEN text
    ELSE LET t1 == IF config.normalize_unicode THEN Nfkc(text) ELSE text
         IN  CASE config.case_handling = "lowercase" -> LowerText(t1)
               [] config.case_handling = "uppercase" -> UpperText(t1)
               [] config.case_handling = "normalize" -> LowerText(t1)
               [] OTHER -> t1

EMOJI_RANGES ==
    << <<128512, 128591>>,     \* 1F600-1F64F
       <<127744, 128511>>,     \* 1F300-1F5FF
       <<128640, 128767>>,     \* 1F680-1F6FF
       <<127462, 127487>>,     \* 1F1E6-1F1FF
       <<9728, 9983>>,         \* 2600-26FF
       <<9984, 10175>>,        \* 2700-27BF
       <<129280, 129535>>,     \* 1F900-1F9FF
       <<129648, 129791>> >>   \* 1FA70-1FAFF

\* MODIFIERS (ZWJ, VS15, VS16), SKIN_TONE 1F3FB-1F3FF, TAGS E0020-E007F
is_modifier(cp) ==
    \/ cp \in {8205, 65038, 65039}
    \/ (127995 <= cp /\ cp <= 127999)
    \/ (917536 <= cp /\ cp <= 917631)

_is_emoji(token) ==
    IF token = <<>> THEN FALSE
    ELSE \A i \in DOMAIN token :
            InRanges(token[i][1], EMOJI_RANGES) \/ is_modifier(token[i][1])

\* one iteration of the loop of _postprocess_tokens: the token as kept, or
\* <<>> when the iteration hits a continue
\* no token taken for an emoji
NeverEmoji(token, config) == FALSE

\* lines 115-117: the token is filtered as an emoji
FilteredAsEmoji(token, config) == ~config.include_emoji /\ _is_emoji(token)

\* the comparison the other way round
LongerThanMin(token, config) == Len(token) > config.min_token_length

\* lines 119-121: the token is shorter than the minimum
ShorterThanMin(token, config) == Len(token) < config.min_token_length

\* lines 123-127: the token is longer than the maximum, when there is one
LongerThanMax(token, config) ==
    config.max_token_length # <<>> /\ Len(token) > config.max_token_length[1]

\* the body of the loop of _postprocess_tokens (lines 107-129)
PostprocessOne(token, config) ==
    LET tok == IF config.strip_whitespace THEN Strip(token) ELSE token
    IN  IF tok = <<>> THEN <<>>
        ELSE IF FilteredAsEmoji(tok, config) THEN <<>>
        ELSE IF ShorterThanMin(tok, config) THEN <<>>
        ELSE IF LongerThanMax(tok, config) THEN <<>>
        ELSE <<tok>>

RECURSIVE _postprocess_tokens(_, _)
_postprocess_tokens(tokens, config) ==
    IF tokens = <<>> THEN tokens
    ELSE PostprocessOne(Head(tokens), config) \o _postprocess_tokens(Tail(tokens), config)

\* ------------------------------------------------------------------------
\* basic/tokenizer.py: BasicTokenizer
\* ------------------------------------------------------------------------

_CHAR_LEVEL_PATTERN ==
    << <<19968, 40959>>,    \* 4E00-9FFF CJK unified ideographs
       <<13312, 19903>>,    \* 3400-4DBF CJK extension A
       <<12352, 12447>>,    \* 3040-309F hiragana
       <<12448, 12543>>,    \* 30A0-30FF katakana
       <<3584, 3711>>,      \* 0E00-0E7F thai
       <<3712, 3839>>,      \* 0E80-0EFF lao
       <<4096, 4255>>,      \* 1000-109F myanmar
       <<6016, 6143>> >>    \* 1780-17FF khmer

_is_char_level_script(cp) == InRanges(cp, _CHAR_LEVEL_PATTERN)

_contains_char_level_chars(token) ==
    \E i \in DOMAIN token : _is_char_level_script(token[i][1])

Has(token, cp) == \E i \in DOMAIN token : token[i][1] = cp

StartsWith(token, s) ==
    Len(token) >= Len(s) /\ \A i \in DOMAIN s : token[i][1] = s[i]

HasSub(token, s) ==
    \E b \in 0..(Len(token) - Len(s)) : \A i \in DOMAIN s : token[b + i][1] = s[i]

Count(token, cp) == Cardinality({i \in DOMAIN token : token[i][1] = cp})

_is_email_like(token) == Has(token, 64) /\ Has(token, 46) /\ ~StartsWith(token, <<64>>)

\* ^[a-z]{1,3}(?:\.[a-z]{1,3})+\.?$ with re.IGNORECASE
abbreviation_pattern ==
    Cat(<< Rep(CC(<< <<97, 122>> >>), 1, 3),
           Plus(Cat(<< Ch(46), Rep(CC(<< <<97, 122>> >>), 1, 3) >>)),
           Opt(Ch(46)) >>)

_is_url_like(token) ==
    IF _is_email_like(token) THEN FALSE
    ELSE IF \/ StartsWith(token, <<104, 116, 116, 112, 58, 47, 47>>)
            \/ StartsWith(token, <<104, 116, 116, 112, 115, 58, 47, 47>>)
            \/ StartsWith(token, <<119, 119, 119, 46>>)
            \/ HasSub(token, <<58, 47, 47>>)
         THEN TRUE
    ELSE IF /\ Count(token, 46) >= 1
            /\ \E i \in DOMAIN token : IsAlpha(token[i][1])
            /\ ~Has(token, 64)
         THEN ~FullMatch(abbreviation_pattern, token)
    ELSE FALSE

\* url_token.rstrip(".!?;:,)]}\"'")
RECURSIVE _clean_url_token(_)
_clean_url_token(url_token) ==
    IF url_token # <<>> /\ url_token[Len(url_token)][1]
                             \in {46, 33, 63, 59, 58, 44, 41, 93, 125, 34, 39}
    THEN _clean_url_token(SubSeq(url_token, 1, Len(url_token) - 1))
    ELSE url_token

\* the token kept as one piece instead of its characters
CharsUnsplit(token) == <<token>>

\* list(token)
Chars(token) == [i \in DOMAIN token |-> <<token[i]>>]

\* Flush putting the flushed run in front of the pieces found so far
FlushInFront(result, current_token, current_is_cjk) ==
    IF Strip(current_token) # <<>>
    THEN IF current_is_cjk /\ Len(current_token) > 1
         THEN Chars(current_token) \o result
         ELSE <<current_token>> \o result
    ELSE result

\* the flush of the running sub-token in _process_mixed_script_token
Flush(result, current_token, current_is_cjk) ==
    IF Strip(current_token) # <<>>
    THEN IF current_is_cjk /\ Len(current_token) > 1
         THEN result \o Chars(current_token)
         ELSE Append(result, current_token)
    ELSE result

\* the loop of _process_mixed_script_token from character i on
RECURSIVE SplitLoop(_, _, _, _, _)
SplitLoop(token, i, result, current_token, current_is_cjk) ==
    IF i > Len(token) THEN Flush(result, current_token, current_is_cjk)
    ELSE LET char_is_cjk == _is_char_level_script(token[i][1])
         IN  IF char_is_cjk = current_is_cjk
             THEN SplitLoop(token, i + 1, result, Append(current_token, token[i]),
                            current_is_cjk)
             ELSE SplitLoop(token, i + 1,
                            Flush(result, current_token, current_is_cjk),
                            <<token[i]>>, char_is_cjk)

\* the same function starting its loop after the first character
_process_after_first(token) ==
    IF ~_contains_char_level_chars(token) THEN <<token>>
    ELSE SplitLoop(token, 2, <<>>, <<>>, _is_char_level_script(token[1][1]))

_process_mixed_script_token(token) ==
    IF ~_contains_char_level_chars(token) THEN <<token>>
    ELSE LET has_latin == \E i \in DOMAIN token :
                              token[i][1] < 128 /\ IsAlpha(token[i][1])
             has_cjk == \E i \in DOMAIN token : _is_char_level_script(token[i][1])
             is_social_entity == \/ StartsWith(token, <<64>>)
                                 \/ StartsWith(token, <<35>>)
                                 \/ StartsWith(token, <<36>>)
         IN  IF has_latin /\ has_cjk /\ ~is_social_entity THEN <<token>>
             ELSE SplitLoop(token, 2, <<>>, <<token[1]>>,
                            _is_char_level_script(token[1][1]))

\* " ".join(text.split())
RECURSIVE JoinSplit(_, _)
JoinSplit(t, pending) ==
    IF t = <<>> THEN <<>>
    ELSE IF IsSpace(t[1][1])
         THEN JoinSplit(Tail(t), IF pending = <<>> THEN << <<32, t[1][2]>> >> ELSE pending)
         ELSE pending \o <<t[1]>> \o JoinSplit(Tail(t), <<>>)

CollapseSpaces(t) == JoinSplit(Strip(t), <<>>)

\* the token loop of _extract_tokens_ordered (lines 176-204)
RECURSIVE TokenLoop(_, _)
TokenLoop(raw_tokens, language_family) ==
    IF raw_tokens = <<>> THEN <<>>
    ELSE LET tok0 == Head(raw_tokens)
             token == IF _is_url_like(tok0) THEN _clean_url_token(tok0) ELSE tok0
             out == IF Strip(tok0) = <<>> THEN <<>>
                    ELSE IF language_family = "cjk" /\ _contains_char_level_chars(token)
                    THEN IF \A i \in DOMAIN token :
                                \/ _is_char_level_script(token[i][1])
                                \/ IsSpace(token[i][1])
                         THEN Chars(token)
                         ELSE <<token>>
                    ELSE IF language_family = "mixed"
                    THEN _process_mixed_script_token(token)
                    ELSE <<token>>
         IN  out \o TokenLoop(Tail(raw_tokens), language_family)

\* text after the exclusion step (lines 150-157); exclusion is the list of
\* the excluded sub-patterns, <<>> standing for "no exclusion pattern"
Excluded(text, exclusion) ==
    IF exclusion # <<>>
    THEN CollapseSpaces(SubSpace(Compiled(exclusion), text, 1))
    ELSE text

\* no token when nothing matches
ExtractedOrNothing(text, comprehensive, language_family) ==
    SelectSeq(TokenLoop(FindAll(Compiled(comprehensive), text), language_family),
              LAMBDA token : Strip(token) # <<>>)

\* _extract_tokens_ordered from line 162 on, the comprehensive pattern given
Extracted(text, comprehensive, language_family) ==
    LET raw_tokens == FindAll(Compiled(comprehensive), text)
    IN  IF raw_tokens = <<>> /\ Strip(text) # <<>> THEN <<Strip(text)>>
        ELSE SelectSeq(TokenLoop(raw_tokens, language_family),
                       LAMBDA token : Strip(token) # <<>>)

\* ------------------------------------------------------------------------
\* basic/patterns.py: TokenizerPatterns and the module-level caches
\* ------------------------------------------------------------------------

\* a cache is a set of entries <<cache_key, pattern>>
Cached(cache, key) == \E e \in cache : e[1] = key

Lookup(cache, key) == (CHOOSE e \in cache : e[1] = key)[2]

If(b, part) == IF b THEN <<part>> ELSE <<>>

\* numbers are never excluded
UrlAndEmailOnly(config) ==
    If(~config.include_urls, "url") \o If(~config.include_emails, "email")

\* lines 266-283: the exclusion alternation
ExclusionParts(config) ==
    If(~config.include_urls, "url") \o If(~config.include_emails, "email")
        \o If(~config.include_numeric, "numeric")

\* get_exclusion_pattern: the pattern returned (<<>> for None) and the cache
get_exclusion_pattern(config, key, cache) ==
    IF Cached(cache, key)
    THEN [pattern |-> Lookup(cache, key), cache |-> cache]
    ELSE [pattern |-> ExclusionParts(config),
          cache |-> cache \cup {<<key, ExclusionParts(config)>>}]

\* lines 191-221: the alternation, in priority order
ComprehensiveParts(config) ==
    If(config.include_urls, "url") \o If(config.include_emails, "email")
        \o If(config.extract_mentions, "mention")
        \o If(config.extract_hashtags, "hashtag")
        \o If(config.extract_cashtags[1], "cashtag")
        \o If(config.include_emoji, "emoji")
        \o If(config.include_numeric, "numeric")
        \o <<"word">>
        \o If(config.include_punctuation, "punctuation")

\* get_comprehensive_pattern: reading config.extract_cashtags (line 208)
\* raises AttributeError when the attribute is not defined
get_comprehensive_pattern(config, key, cache) ==
    IF Cached(cache, key)
    THEN [raised |-> FALSE, pattern |-> Lookup(cache, key), cache |-> cache]
    ELSE IF config.extract_cashtags = <<>>
    THEN [raised |-> TRUE, pattern |-> <<>>, cache |-> cache]
    ELSE [raised |-> FALSE, pattern |-> ComprehensiveParts(config),
          cache |-> cache \cup {<<key, ComprehensiveParts(config)>>}]

\* _extract_tokens_ordered: the tokens, or the AttributeError, and the caches
_extract_tokens_ordered(txt, language_family, cfg, key, excl, comp) ==
    IF Strip(txt) = <<>>
    THEN [status |-> "returned", tokens |-> <<>>, excl |-> excl, comp |-> comp]
    ELSE LET ex == get_exclusion_pattern(cfg, key, excl)
             t2 == Excluded(txt, ex.pattern)
         IN  IF Strip(t2) = <<>>
             THEN [status |-> "returned", tokens |-> <<>>, excl |-> ex.cache,
                   comp |-> comp]
             ELSE LET cp == get_comprehensive_pattern(cfg, key, comp)
                  IN  IF cp.raised
                      THEN [status |-> "raised", tokens |-> <<>>,
                            excl |-> ex.cache, comp |-> cp.cache]
                      ELSE [status |-> "returned",
                            tokens |-> Extracted(t2, cp.pattern, language_family),
                            excl |-> ex.cache, comp |-> cp.cache]

\* BasicTokenizer.tokenize (lines 60-72), as one function of its inputs and
\* of the two caches
tokenize(txt, cfg, key, excl, comp) ==
    IF txt = None \/ txt = <<>> \/ _preprocess_text(txt, cfg) = <<>>
    THEN [status |-> "returned", tokens |-> <<>>, excl |-> excl, comp |-> comp]
    ELSE LET ext == _extract_tokens_ordered(_preprocess_text(txt, cfg), "mixed",
                                            cfg, key, excl, comp)
         IN  IF ext.status = "raised" THEN ext
             ELSE [ext EXCEPT !.tokens = _postprocess_tokens(ext.tokens, cfg)]

\* BasicTokenizer._postprocess_tokens (lines 317-331)
BasicPostprocess(toks, cfg) ==
    IF toks = <<>> THEN toks ELSE _postprocess_tokens(toks, cfg)

\* ------------------------------------------------------------------------
\* Inputs
\* ------------------------------------------------------------------------

\* texts are made of at most MaxFrags fragments
MaxFrags == 3

\* number of distinct values of hash() the model tells apart
NumKeys == 2

HashSpace == 0..(NumKeys - 1)

RECURSIVE Phrases(_, _)
Phrases(frags, n) ==
    IF n = 0 THEN {<<>>}
    ELSE LET shorter == Phrases(frags, n - 1)
         IN  shorter \cup {p \o f : p \in shorter, f \in frags}

Texts(frags) == {Cells(s) : s \in Phrases(frags, MaxFrags)}

Flip(cfg, fields) ==
    [f \in DOMAIN cfg |-> IF f \in fields THEN ~cfg[f] ELSE cfg[f]]

\* the default configuration with any of the boolean options in toggles
\* inverted; cash is the set of states of the extract_cashtags attribute
ConfigsOver(toggles, cash) ==
    {[Flip(DefaultConfig, s) EXCEPT !.extract_cashtags = c] :
        s \in SUBSET toggles, c \in cash}

\* ------------------------------------------------------------------------
\* State
\* ------------------------------------------------------------------------

VARIABLES
    text,          \* the argument of the tokenize call in progress
    config,        \* self._config of the tokenizer called
    pc,            \* position of the call: tokenize, extract, postprocess, done, raised
    processed,     \* processed_text (tokenizer.py:64)
    extracted,     \* tokens (tokenizer.py:69)
    result,        \* the list returned by tokenize
    excl_cache,    \* _exclusion_pattern_cache
    comp_cache,    \* _comprehensive_pattern_cache
    fingerprint,   \* the values hash() has given: a set of <<config, key>>
    calls,         \* number of tokenize calls started
    df_input,      \* the message rows given to the n-gram analyzer
    min_n,         \* parameter min_n of the analyzer
    max_n,         \* parameter max_n of the analyzer
    current_row,   \* rows of df_input consumed by get_ngram_rows
    ngram_rows,    \* the rows get_ngram_rows has yielded
    ngrams_by_id,  \* the dict of that name: a set of <<serialized n-gram, id>>
    ngram_stats,   \* the rows _compute_ngram_statistics returns
    ngram_defs,    \* the rows _create_ngram_definitions returns
    threads,       \* the threads of the process: each one's call of tokenize
    _global_patterns,        \* the module global: 0 for None, else who built it
    compiler,      \* REGEX_AVAILABLE, and which calls of compile succeed
    df_ngram_summary,        \* height of the summary table
    report_slice_size,       \* the local of that name in main
    report_total_processed,  \* the local of that name in main
    written,       \* summary rows whose report slice the writer has written
    progress       \* the values passed to progress.update, as <<num, den>>

ngvars == <<df_input, min_n, max_n, current_row, ngram_rows, ngrams_by_id,
           ngram_stats, ngram_defs>>

thvars == <<threads, _global_patterns, compiler>>

rpvars == <<df_ngram_summary, report_slice_size, report_total_processed,
           written, progress>>

vars == <<text, config, pc, processed, extracted, result, excl_cache,
          comp_cache, fingerprint, calls, ngvars, thvars, rpvars>>

\* no analyzer run
NoFrame ==
    /\ df_input = <<>>
    /\ min_n = 1
    /\ max_n = 1
    /\ current_row = 0
    /\ ngram_rows = <<>>
    /\ ngrams_by_id = {}
    /\ ngram_stats = {}
    /\ ngram_defs = {}

\* no thread besides the main one
NoThreads ==
    /\ threads = <<>>
    /\ _global_patterns = 0

\* the regex module is not installed and re compiles both synthesized
\* patterns: exclusion and comprehensive hold the outcomes of the first and
\* of the second attempt to compile the pattern of that name
Compiles ==
    compiler = [regex_available |-> FALSE, exclusion |-> <<TRUE, TRUE>>,
                comprehensive |-> <<TRUE, TRUE>>]

\* the statistics analyzer is not writing a report
NoReport ==
    /\ df_ngram_summary = 0
    /\ report_slice_size = 1
    /\ report_total_processed = 0
    /\ written = 0
    /\ progress = <<>>

\* the state after the modules are imported and a tokenizer is constructed
\* for the first call: empty caches
InitOver(texts, configs) ==
    /\ text \in texts
    /\ config \in configs
    /\ pc = "tokenize"
    /\ processed = <<>>
    /\ extracted = <<>>
    /\ result = <<>>
    /\ excl_cache = {}
    /\ comp_cache = {}
    /\ fingerprint = {}
    /\ calls = 1
    /\ NoThreads
    /\ Compiles
    /\ NoReport
    /\ NoFrame

\* hash(frozenset(config.model_dump().items())): a value fixed for the
\* process once computed; two configurations may have the same one.  Only the
\* least unused value is offered as a new one (the values are interchangeable).
KeysFor(cfg) ==
    IF \E e \in fingerprint : e[1] = cfg
    THEN {e[2] : e \in {x \in fingerprint : x[1] = cfg}}
    ELSE LET used == {e[2] : e \in fingerprint}
             unused == HashSpace \ used
         IN  used \cup (IF unused = {} THEN {}
                        ELSE {CHOOSE k \in unused : \A j \in unused : k <= j})

\* tokenize, lines 60-66
Preprocess ==
    /\ pc = "tokenize"
    /\ processed' = IF text = None THEN processed
                    ELSE _preprocess_text(text, config)
    /\ IF text = None \/ text = <<>> \/ processed' = <<>>
       THEN pc' = "done" /\ result' = <<>>
       ELSE pc' = "extract" /\ UNCHANGED result
    /\ UNCHANGED <<text, config, extracted, excl_cache, comp_cache,
                   fingerprint, calls, ngvars, thvars, rpvars>>

\* tokenize, line 69: _extract_tokens -> _extract_tokens_ordered
ExtractTokens ==
    /\ pc = "extract"
    /\ \E key \in KeysFor(config) :
          \E ext \in {_extract_tokens_ordered(processed, "mixed", config, key,
                                              excl_cache, comp_cache)} :
              /\ excl_cache' = ext.excl
              /\ comp_cache' = ext.comp
              /\ fingerprint' = IF Strip(processed) = <<>> THEN fingerprint
                                ELSE fingerprint \cup {<<config, key>>}
              /\ extracted' = ext.tokens
              /\ pc' = IF ext.status = "raised" THEN "raised" ELSE "postprocess"
    /\ UNCHANGED <<text, config, processed, result, calls, ngvars, thvars,
                   rpvars>>

\* tokenize, line 72
Postprocess ==
    /\ pc = "postprocess"
    /\ result' = BasicPostprocess(extracted, config)
    /\ pc' = "done"
    /\ UNCHANGED <<text, config, processed, extracted, excl_cache,
                   comp_cache, fingerprint, calls, ngvars, thvars, rpvars>>

Next == Preprocess \/ ExtractTokens \/ Postprocess

\* ------------------------------------------------------------------------
\* one call on mixed text
\* ------------------------------------------------------------------------

\* a # . 日 space a.aa /
OrderFrags == {<<97>>, <<35>>, <<46>>, <<26085>>, <<32>>, <<97, 46, 97, 97>>, <<47>>}

OrderConfigs ==
    ConfigsOver({"include_urls", "include_punctuation", "extract_hashtags"},
                {<<>>, <<FALSE>>})

InitOrder == InitOver(Texts(OrderFrags), OrderConfigs)

SpecOrder == InitOrder /\ [][Next]_vars

\* ------------------------------------------------------------------------
\* one call on text with Hangul, ideographs, hashtags and mentions
\* ------------------------------------------------------------------------

\* a 한 日 # @ space
SocialFrags == {<<97>>, <<54620>>, <<26085>>, <<35>>, <<64>>, <<32>>}

SocialConfigs ==
    ConfigsOver({"extract_hashtags", "extract_mentions"}, {<<>>, <<FALSE>>})

InitSocial == InitOver(Texts(SocialFrags), SocialConfigs)

SpecSocial == InitSocial /\ [][Next]_vars

\* ------------------------------------------------------------------------
\* one call on text with URLs, email addresses and numbers
\* ------------------------------------------------------------------------

\* a . @ space 1 , a.aa
ExcludeFrags == {<<97>>, <<46>>, <<64>>, <<32>>, <<49>>, <<44>>, <<97, 46, 97, 97>>}

ExcludeConfigs ==
    ConfigsOver({"include_urls", "include_emails", "include_numeric"},
                {<<>>, <<FALSE>>})

InitExclude == InitOver(Texts(ExcludeFrags), ExcludeConfigs)

SpecExclude == InitExclude /\ [][Next]_vars

\* ------------------------------------------------------------------------
\* one call on text with emoji
\* ------------------------------------------------------------------------

\* U+1F600 U+FE0F a space ? www.
EmojiFrags == {<<128512>>, <<65039>>, <<97>>, <<32>>, <<63>>, <<119, 119, 119, 46>>}

EmojiConfigs ==
    ConfigsOver({"include_emoji", "include_punctuation"}, {<<>>, <<FALSE>>})

InitEmoji == InitOver(Texts(EmojiFrags), EmojiConfigs)

SpecEmoji == InitEmoji /\ [][Next]_vars

\* ------------------------------------------------------------------------
\* one call under configurations with length limits
\* ------------------------------------------------------------------------

\* a space 日 # ?
LengthFrags == {<<97>>, <<32>>, <<26085>>, <<35>>, <<63>>}

MinLengths == (0 - 1)..2

\* <<>> is None
MaxLengths == {<<>>, <<0>>, <<1>>}

LengthConfigs ==
    {[DefaultConfig EXCEPT !.min_token_length = m, !.max_token_length = x,
                           !.extract_cashtags = c] :
        m \in MinLengths, x \in MaxLengths, c \in {<<>>, <<FALSE>>}}

InitLength == InitOver(Texts(LengthFrags), LengthConfigs)

SpecLength == InitLength /\ [][Next]_vars

\* ------------------------------------------------------------------------
\* several calls in one process: the pattern caches are module globals
\* ------------------------------------------------------------------------

\* at most MaxCalls calls of tokenize in the process
MaxCalls == 2

\* a.aa #a a
CacheTexts == {Cells(<<97, 46, 97, 97>>), Cells(<<35, 97>>), Cells(<<97>>)}

CacheConfigs ==
    ConfigsOver({"include_urls", "extract_hashtags"}, {<<>>, <<FALSE>>})

InitCache == InitOver(CacheTexts, CacheConfigs)

\* a tokenizer is constructed for some configuration and called on some
\* text, after the call before has ended; the caches stay as they are
NewCall ==
    /\ pc \in {"done", "raised"}
    /\ calls < MaxCalls
    /\ text' \in CacheTexts
    /\ config' \in CacheConfigs
    /\ pc' = "tokenize"
    /\ processed' = <<>>
    /\ extracted' = <<>>
    /\ result' = <<>>
    /\ calls' = calls + 1
    /\ UNCHANGED <<excl_cache, comp_cache, fingerprint, ngvars, thvars,
                   rpvars>>

NextCached == Preprocess \/ ExtractTokens \/ Postprocess \/ NewCall

SpecCache == InitCache /\ [][NextCached]_vars

\* ------------------------------------------------------------------------
\* _process_mixed_script_token applied to one whitespace-free token
\* ------------------------------------------------------------------------

\* tokens have at most MaxTokenLen characters
MaxTokenLen == 4

\* a # . 日 ก(thai) 한
SplitAlphabet == {97, 35, 46, 26085, 3585, 54620}

RECURSIVE Strings(_, _)
Strings(alphabet, n) ==
    IF n = 0 THEN {<<>>}
    ELSE LET shorter == Strings(alphabet, n - 1)
         IN  shorter \cup {Append(p, c) : p \in shorter, c \in alphabet}

InitSplit ==
    /\ text \in {Cells(s) : s \in Strings(SplitAlphabet, MaxTokenLen) \ {<<>>}}
    /\ config = DefaultConfig
    /\ pc = "split"
    /\ processed = <<>>
    /\ extracted = <<>>
    /\ result = <<>>
    /\ excl_cache = {}
    /\ comp_cache = {}
    /\ fingerprint = {}
    /\ calls = 0
    /\ NoThreads
    /\ Compiles
    /\ NoReport
    /\ NoFrame

SplitToken ==
    /\ pc = "split"
    /\ result' = _process_mixed_script_token(text)
    /\ pc' = "split_done"
    /\ UNCHANGED <<text, config, processed, extracted, excl_cache,
                   comp_cache, fingerprint, calls, ngvars, thvars, rpvars>>

SpecSplit == InitSplit /\ [][SplitToken]_vars

\* a # 日 한 and the space: tokens with and without whitespace
PieceAlphabet == {97, 35, 26085, 54620, 32}

\* _process_mixed_script_token is about to be called on some token
InitPieces ==
    /\ text \in {Cells(s) : s \in Strings(PieceAlphabet, MaxTokenLen) \ {<<>>}}
    /\ config = DefaultConfig
    /\ pc = "split"
    /\ processed = <<>>
    /\ extracted = <<>>
    /\ result = <<>>
    /\ excl_cache = {}
    /\ comp_cache = {}
    /\ fingerprint = {}
    /\ calls = 0
    /\ NoThreads
    /\ Compiles
    /\ NoReport
    /\ NoFrame

SpecPieces == InitPieces /\ [][SplitToken]_vars

\* ------------------------------------------------------------------------
\* analyzers/ngrams/ngrams_base/main.py
\* ------------------------------------------------------------------------

\* the tokens as the strings tokenize returns
Strs(tokens) == [i \in DOMAIN tokens |-> Str(tokens[i])]

\* a null cell of a dataframe column
Null == <<0 - 1>>

\* tokens[i : i + n] for 0-based i and n >= 0
Slice(tokens, i, n) ==
    SubSeq(tokens, i + 1, IF i + n > Len(tokens) THEN Len(tokens) ELSE i + n)

\* the inner loop of ngrams for start index i, from length n on
RECURSIVE NgramsAt(_, _, _, _)
NgramsAt(tokens, i, n, max) ==
    IF n > max \/ i + n > Len(tokens) THEN <<>>
    ELSE <<Slice(tokens, i, n)>> \o NgramsAt(tokens, i, n + 1, max)

\* the outer loop of ngrams from start index i on
RECURSIVE NgramsFrom(_, _, _, _)
NgramsFrom(tokens, i, min, max) ==
    IF i >= Len(tokens) - min + 1 THEN <<>>
    ELSE NgramsAt(tokens, i, min, max) \o NgramsFrom(tokens, i + 1, min, max)

\* the n-grams that do not start at the first token
ngramsPastFirst(tokens, min, max) == NgramsFrom(tokens, 1, min, max)

\* ngrams(tokens, min, max): the n-grams in the order they are generated
ngrams(tokens, min, max) == NgramsFrom(tokens, 0, min, max)

\* " ".join(ngram)
RECURSIVE serialize_ngram(_)
serialize_ngram(ngram) ==
    IF ngram = <<>> THEN <<>>
    ELSE IF Len(ngram) = 1 THEN ngram[1]
    ELSE ngram[1] \o <<32>> \o serialize_ngram(Tail(ngram))

\* every n-gram counts as new
NeverSeen(serialized_ngram, seen_ngrams_in_message) == FALSE

\* the test of line 88
AlreadySeen(serialized_ngram, seen_ngrams_in_message) ==
    serialized_ngram \in seen_ngrams_in_message

\* ngrams_by_id[serialized_ngram]
IdOf(by_id, serialized_ngram) ==
    (CHOOSE e \in by_id : e[1] = serialized_ngram)[2]

\* the loop over the n-grams of one message (lines 85-101): the rows it
\* yields and the dict it leaves
RECURSIVE NgramLoop(_, _, _, _, _)
NgramLoop(grams, surrogate_id, seen_ngrams_in_message, by_id, yielded) ==
    IF grams = <<>> THEN [by_id |-> by_id, yielded |-> yielded]
    ELSE LET serialized_ngram == serialize_ngram(Head(grams))
         IN  IF AlreadySeen(serialized_ngram, seen_ngrams_in_message)
             THEN NgramLoop(Tail(grams), surrogate_id, seen_ngrams_in_message,
                            by_id, yielded)
             ELSE LET ids == IF \E e \in by_id : e[1] = serialized_ngram THEN by_id
                             ELSE by_id \cup {<<serialized_ngram, Cardinality(by_id)>>}
                  IN  NgramLoop(Tail(grams), surrogate_id,
                                seen_ngrams_in_message \cup {serialized_ngram}, ids,
                                Append(yielded,
                                       [message_surrogate_id |-> surrogate_id,
                                        ngram_id |-> IdOf(ids, serialized_ngram)]))

\* the rows of df with their 1-based positions as surrogate ids
WithSurrogateIds(df) ==
    [i \in DOMAIN df |-> [df[i] EXCEPT !.message_surrogate_id = i]]

\* _preprocess_messages
_preprocess_messages(df) ==
    SelectSeq(WithSurrogateIds(df),
              LAMBDA row : /\ row.message_text # Null
                           /\ row.message_text # <<>>
                           /\ row.author_id # Null
                           /\ row.author_id # <<>>)

\* at most MaxMessages rows in the input
MaxMessages == 2

\* a message has at most MaxWords words
MaxWords == 2

\* "a " and "b "
NgramFrags == {<<97, 32>>, <<98, 32>>}

\* the rows of the raw input: messages of one author, an empty message, a
\* null message, and a message without author
RawRows ==
    {[message_surrogate_id |-> 0, author_id |-> <<117>>, message_text |-> t] :
        t \in Phrases(NgramFrags, MaxWords) \cup {Null}}
      \cup {[message_surrogate_id |-> 0, author_id |-> <<>>, message_text |-> <<97, 32>>]}

\* the values of the parameters min_n and max_n
NgramRanges == {<<1, 2>>, <<2, 3>>}

RECURSIVE Frames(_)
Frames(n) ==
    IF n = 0 THEN {<<>>}
    ELSE LET shorter == Frames(n - 1)
         IN  shorter \cup {Append(f, r) : f \in shorter, r \in RawRows}

InitNgrams ==
    /\ df_input \in Frames(MaxMessages)
    /\ \E range \in NgramRanges : min_n = range[1] /\ max_n = range[2]
    /\ config \in ConfigsOver({}, {<<>>, <<FALSE>>})
    /\ pc = "preprocess_messages"
    /\ current_row = 0
    /\ ngram_rows = <<>>
    /\ ngrams_by_id = {}
    /\ ngram_stats = {}
    /\ ngram_defs = {}
    /\ text = <<>>
    /\ processed = <<>>
    /\ extracted = <<>>
    /\ result = <<>>
    /\ excl_cache = {}
    /\ comp_cache = {}
    /\ fingerprint = {}
    /\ calls = 0
    /\ NoThreads
    /\ Compiles
    /\ NoReport

\* main, lines 147-150
PreprocessMessages ==
    /\ pc = "preprocess_messages"
    /\ df_input' = _preprocess_messages(df_input)
    /\ pc' = "rows"
    /\ UNCHANGED <<text, config, processed, extracted, result, excl_cache,
                   comp_cache, fingerprint, calls, min_n, max_n, current_row,
                   ngram_rows, ngrams_by_id, ngram_stats, ngram_defs, thvars,
                   rpvars>>

\* one iteration of the loop over the rows in get_ngram_rows (lines 77-104):
\* tokenize_text on the message, then the loop over its n-grams
NgramRow ==
    /\ pc = "rows"
    /\ current_row < Len(df_input)
    /\ \E row \in {df_input[current_row + 1]}, key \in KeysFor(config) :
          \E call \in {tokenize(Cells(row.message_text), config, key,
                                 excl_cache, comp_cache)} :
              /\ text' = Cells(row.message_text)
              /\ excl_cache' = call.excl
              /\ comp_cache' = call.comp
              /\ fingerprint' =
                    IF Strip(_preprocess_text(Cells(row.message_text), config)) = <<>>
                    THEN fingerprint ELSE fingerprint \cup {<<config, key>>}
              /\ calls' = calls + 1
              /\ IF call.status = "raised"
                 THEN /\ pc' = "raised"
                      /\ UNCHANGED <<result, current_row, ngram_rows, ngrams_by_id>>
                 ELSE \E loop \in {NgramLoop(ngrams(Strs(call.tokens), min_n, max_n),
                                             row.message_surrogate_id, {},
                                             ngrams_by_id, ngram_rows)} :
                         /\ pc' = "rows"
                         /\ result' = call.tokens
                         /\ current_row' = current_row + 1
                         /\ ngram_rows' = loop.yielded
                         /\ ngrams_by_id' = loop.by_id
    /\ UNCHANGED <<config, processed, extracted, df_input, min_n, max_n,
                   ngram_stats, ngram_defs, thvars, rpvars>>

\* the generator is exhausted: pl.DataFrame(...) is built and returned
\* (lines 106-107)
NgramFrame ==
    /\ pc = "rows"
    /\ current_row = Len(df_input)
    /\ pc' = "extracted"
    /\ UNCHANGED <<text, config, processed, extracted, result, excl_cache,
                   comp_cache, fingerprint, calls, ngvars, thvars, rpvars>>

\* _create_ngram_definitions (lines 110-127): one row for each entry of
\* the dict; ngram_length is the length of ngram_words.str.split(" "), one
\* more than the number of spaces in the serialized n-gram
_create_ngram_definitions(by_id) ==
    {[ngram_id |-> e[2], ngram_words |-> e[1],
      ngram_length |-> Len(SelectSeq(e[1], LAMBDA cp : cp = 32)) + 1] :
        e \in by_id}

\* main, lines 166-168
NgramDefinitions ==
    /\ pc = "extracted"
    /\ ngram_defs' = _create_ngram_definitions(ngrams_by_id)
    /\ pc' = "defined"
    /\ UNCHANGED <<text, config, processed, extracted, result, excl_cache,
                   comp_cache, fingerprint, calls, df_input, min_n, max_n,
                   current_row, ngram_rows, ngrams_by_id, ngram_stats, thvars,
                   rpvars>>

NextNgrams == PreprocessMessages \/ NgramRow \/ NgramFrame \/ NgramDefinitions

SpecNgrams == InitNgrams /\ [][NextNgrams]_vars

\* ------------------------------------------------------------------------
\* the extractor on messages whose tokens may hold a space
\* ------------------------------------------------------------------------

\* "# ລ", "#ລ", "a #ລ" and "a"
IdTexts == {<<35, 32, 3749>>, <<35, 3749>>, <<97, 32, 35, 3749>>, <<97>>}

IdRows ==
    {[message_surrogate_id |-> 0, author_id |-> <<117>>, message_text |-> t] :
        t \in IdTexts}

RECURSIVE FramesOver(_, _)
FramesOver(rows, n) ==
    IF n = 0 THEN {<<>>}
    ELSE LET shorter == FramesOver(rows, n - 1)
         IN  shorter \cup {Append(f, r) : f \in shorter, r \in rows}

InitIds ==
    /\ df_input \in FramesOver(IdRows, MaxMessages)
    /\ \E range \in NgramRanges : min_n = range[1] /\ max_n = range[2]
    /\ config \in ConfigsOver({}, {<<>>, <<FALSE>>})
    /\ pc = "preprocess_messages"
    /\ current_row = 0
    /\ ngram_rows = <<>>
    /\ ngrams_by_id = {}
    /\ ngram_stats = {}
    /\ ngram_defs = {}
    /\ text = <<>>
    /\ processed = <<>>
    /\ extracted = <<>>
    /\ result = <<>>
    /\ excl_cache = {}
    /\ comp_cache = {}
    /\ fingerprint = {}
    /\ calls = 0
    /\ NoThreads
    /\ Compiles
    /\ NoReport

SpecIds == InitIds /\ [][NextNgrams]_vars

\* ------------------------------------------------------------------------
\* ngrams on its own
\* ------------------------------------------------------------------------

\* token lists of at most MaxTokens tokens
MaxTokens == 3

\* min and max are at most MaxGram
MaxGram == 3

\* the tokens "a" and "b"
WindowTokens == {<<97>>, <<98>>}

RECURSIVE TokenLists(_)
TokenLists(n) ==
    IF n = 0 THEN {<<>>}
    ELSE LET shorter == TokenLists(n - 1)
         IN  shorter \cup {Append(l, t) : l \in shorter, t \in WindowTokens}

\* a call of ngrams: the tokens in result, min and max in min_n and max_n
InitWindow ==
    /\ result \in TokenLists(MaxTokens)
    /\ min_n \in 1..MaxGram
    /\ max_n \in 1..MaxGram
    /\ pc = "ngrams"
    /\ ngram_rows = <<>>
    /\ df_input = <<>>
    /\ current_row = 0
    /\ ngrams_by_id = {}
    /\ ngram_stats = {}
    /\ ngram_defs = {}
    /\ text = <<>>
    /\ config = DefaultConfig
    /\ processed = <<>>
    /\ extracted = <<>>
    /\ excl_cache = {}
    /\ comp_cache = {}
    /\ fingerprint = {}
    /\ calls = 0
    /\ NoThreads
    /\ Compiles
    /\ NoReport

\* the generator run to exhaustion: ngram_rows is list(ngrams(...))
Window ==
    /\ pc = "ngrams"
    /\ ngram_rows' = ngrams(result, min_n, max_n)
    /\ pc' = "ngrams_done"
    /\ UNCHANGED <<text, config, processed, extracted, result, excl_cache,
                   comp_cache, fingerprint, calls, df_input, min_n, max_n,
                   current_row, ngrams_by_id, ngram_stats, ngram_defs,
                   thvars, rpvars>>

SpecWindow == InitWindow /\ [][Window]_vars

\* ------------------------------------------------------------------------
\* analyzers/ngrams/ngrams_stats/main.py
\* ------------------------------------------------------------------------

\* dict_authors_by_message (lines 44-47): a later row replaces an earlier one
\* of the same message_surrogate_id
AuthorsByMessage(df_messages) ==
    [m \in {df_messages[i].message_surrogate_id : i \in DOMAIN df_messages} |->
        LET last == CHOOSE i \in DOMAIN df_messages :
                        /\ df_messages[i].message_surrogate_id = m
                        /\ \A j \in DOMAIN df_messages :
                              df_messages[j].message_surrogate_id = m => j <= i
        IN  df_messages[last].author_id]

\* every n-gram detected is kept
AtLeastOnce(total_reps) == total_reps > 0

\* the filter of line 58
MoreThanOnce(total_reps) == total_reps > 1

\* _compute_ngram_statistics: group_by(ngram_id), the two aggregates and the
\* filter; the rows as a set, the order of the groups being unspecified
_compute_ngram_statistics(df_message_ngrams, df_messages) ==
    LET dict_authors_by_message == AuthorsByMessage(df_messages)
        Group(id) == {i \in DOMAIN df_message_ngrams :
                         df_message_ngrams[i].ngram_id = id}
        Agg(id) ==
            [ngram_id |-> id,
             total_reps |-> Cardinality(Group(id)),
             distinct_posters |->
                 Cardinality({dict_authors_by_message[
                                  df_message_ngrams[i].message_surrogate_id] :
                                  i \in Group(id)})]
        groups == {Agg(df_message_ngrams[i].ngram_id) : i \in DOMAIN df_message_ngrams}
    IN  {r \in groups : MoreThanOnce(r.total_reps)}

\* the authors "u" and "v"
StatAuthors == {<<117>>, <<118>>}

\* the ids of up to three n-grams
StatIds == 0..2

\* the message tables the base analyzer writes: surrogate ids 1..n
RECURSIVE MessageTables(_)
MessageTables(n) ==
    IF n = 0 THEN {<<>>}
    ELSE MessageTables(n - 1) \cup
         {Append(t, [message_surrogate_id |-> Len(t) + 1, author_id |-> a]) :
             t \in {x \in MessageTables(n - 1) : Len(x) = n - 1}, a \in StatAuthors}

\* the rows of pairs sorted by message_surrogate_id and ngram_id, as main of
\* the base analyzer writes them (ngrams_base/main.py:158-160)
RECURSIVE SortedRows(_)
SortedRows(pairs) ==
    IF pairs = {} THEN <<>>
    ELSE LET least == CHOOSE q \in pairs :
                          \A r \in pairs :
                              q[1] < r[1] \/ (q[1] = r[1] /\ q[2] <= r[2])
         IN  <<[message_surrogate_id |-> least[1], ngram_id |-> least[2]]>>
                 \o SortedRows(pairs \ {least})

\* the occurrence tables the base analyzer writes for n messages: a pair at
\* most once, the ids in use being 0..k-1
OccurrenceTables(n) ==
    {SortedRows(pairs) :
        pairs \in {ps \in SUBSET ((1..n) \X StatIds) :
                      \A q \in ps : \A id \in 0..q[2] : \E r \in ps : r[2] = id}}

InitStats ==
    /\ df_input \in MessageTables(MaxMessages)
    /\ ngram_rows \in OccurrenceTables(Len(df_input))
    /\ pc = "stats"
    /\ ngram_stats = {}
    /\ ngram_defs = {}
    /\ min_n = 1
    /\ max_n = 1
    /\ current_row = 0
    /\ ngrams_by_id = {}
    /\ text = <<>>
    /\ config = DefaultConfig
    /\ processed = <<>>
    /\ extracted = <<>>
    /\ result = <<>>
    /\ excl_cache = {}
    /\ comp_cache = {}
    /\ fingerprint = {}
    /\ calls = 0
    /\ NoThreads
    /\ Compiles
    /\ NoReport

\* main, lines 146-147
ComputeStatistics ==
    /\ pc = "stats"
    /\ ngram_stats' = _compute_ngram_statistics(ngram_rows, df_input)
    /\ pc' = "stats_done"
    /\ UNCHANGED <<text, config, processed, extracted, result, excl_cache,
                   comp_cache, fingerprint, calls, df_input, min_n, max_n,
                   current_row, ngram_rows, ngrams_by_id, ngram_defs, thvars,
                   rpvars>>

SpecStats == InitStats /\ [][ComputeStatistics]_vars

\* ------------------------------------------------------------------------
\* one call on text with cashtags
\* ------------------------------------------------------------------------

\* $ a 1 space .
CashFrags == {<<36>>, <<97>>, <<49>>, <<32>>, <<46>>}

\* the keyword arguments of conftest.py: none, extract_cashtags=True and
\* extract_cashtags=False
CashKwargs ==
    {<<>>, [extract_cashtags |-> TRUE], [extract_cashtags |-> FALSE],
     [extract_cashtags |-> TRUE, include_numeric |-> FALSE]}

\* configurations built by TokenizerConfig, and instances of a subclass that
\* declares extract_cashtags
CashConfigs ==
    {TokenizerConfig(kw) : kw \in CashKwargs}
        \cup ConfigsOver({"include_numeric"}, {<<FALSE>>, <<TRUE>>})

InitCash == InitOver(Texts(CashFrags), CashConfigs)

SpecCash == InitCash /\ [][Next]_vars

\* ------------------------------------------------------------------------
\* calls without text, through BasicTokenizer.tokenize and tokenize_text
\* ------------------------------------------------------------------------

\* None, as the value of the config argument of tokenize_text
NoConfig == [none |-> TRUE]

\* space, tab, newline and the ideographic space
BlankFrags == {<<32>>, <<9>>, <<10>>, <<12288>>}

\* None, the empty string and the texts of whitespace
MissingTexts == Texts(BlankFrags) \cup {None}

MissingConfigs ==
    ConfigsOver({"normalize_unicode", "strip_whitespace", "include_urls"},
                {<<>>, <<FALSE>>})

\* a call of tokenize on a tokenizer, or of tokenize_text with a
\* configuration or None
InitMissing ==
    /\ text \in MissingTexts
    /\ config \in MissingConfigs \cup {NoConfig}
    /\ pc \in {"tokenize", "tokenize_text"}
    /\ config = NoConfig => pc = "tokenize_text"
    /\ processed = <<>>
    /\ extracted = <<>>
    /\ result = <<>>
    /\ excl_cache = {}
    /\ comp_cache = {}
    /\ fingerprint = {}
    /\ calls = 1
    /\ NoThreads
    /\ Compiles
    /\ NoReport
    /\ NoFrame

\* tokenize_text -> create_basic_tokenizer (basic/__init__.py:14-24)
TokenizeText ==
    /\ pc = "tokenize_text"
    /\ config' = IF config = NoConfig THEN TokenizerConfig(<<>>) ELSE config
    /\ pc' = "tokenize"
    /\ UNCHANGED <<text, processed, extracted, result, excl_cache,
                   comp_cache, fingerprint, calls, ngvars, thvars, rpvars>>

NextMissing == TokenizeText \/ Preprocess \/ ExtractTokens \/ Postprocess

SpecMissing == InitMissing /\ [][NextMissing]_vars

\* ------------------------------------------------------------------------
\* one call on text with composed and decomposed accented letters
\* ------------------------------------------------------------------------

\* e U+0301 é É a space
NormalFrags == {<<101>>, <<769>>, <<233>>, <<201>>, <<97>>, <<32>>}

NormalConfigs == ConfigsOver({"normalize_unicode"}, {<<>>, <<FALSE>>})

InitNormal == InitOver(Texts(NormalFrags), NormalConfigs)

SpecNormal == InitNormal /\ [][Next]_vars

\* ------------------------------------------------------------------------
\* one call under every combination of the feature options
\* ------------------------------------------------------------------------

\* a, 1
PatternTexts == {Cells(<<97>>), Cells(<<49>>)}

PatternConfigs ==
    ConfigsOver({"include_urls", "include_emails", "extract_mentions",
                 "extract_hashtags", "include_emoji", "include_numeric",
                 "include_punctuation"},
                {<<>>, <<FALSE>>, <<TRUE>>})

InitPatterns == InitOver(PatternTexts, PatternConfigs)

SpecPatterns == InitPatterns /\ [][Next]_vars

\* ------------------------------------------------------------------------
\* one call on text the comprehensive pattern may not match at all
\* ------------------------------------------------------------------------

\* ? # U+1F600 a space
FallbackFrags == {<<63>>, <<35>>, <<128512>>, <<97>>, <<32>>}

FallbackConfigs ==
    {[c EXCEPT !.min_token_length = m, !.max_token_length = x] :
        c \in ConfigsOver({"include_emoji"}, {<<>>, <<FALSE>>}),
        m \in {1, 2}, x \in {<<>>, <<2>>}}

InitFallback == InitOver(Texts(FallbackFrags), FallbackConfigs)

SpecFallback == InitFallback /\ [][Next]_vars

\* ------------------------------------------------------------------------
\* the statistics analyzer writing the full report, slice by slice
\* ------------------------------------------------------------------------

\* rows of the summary table
MaxRows == 8

\* largest value of max(1, 100_000 // average_cardinality_explosion_factor)
MaxSlice == 4

\* main is about to enter the loop over the slices (line 180): the summary
\* table has some rows and the slice size has been computed
InitReport ==
    /\ df_ngram_summary \in 1..MaxRows
    /\ report_slice_size \in 1..MaxSlice
    /\ report_total_processed = 0
    /\ written = 0
    /\ progress = <<>>
    /\ pc = "report"
    /\ text = <<>>
    /\ config = DefaultConfig
    /\ processed = <<>>
    /\ extracted = <<>>
    /\ result = <<>>
    /\ excl_cache = {}
    /\ comp_cache = {}
    /\ fingerprint = {}
    /\ calls = 0
    /\ NoThreads
    /\ Compiles
    /\ NoFrame

\* one iteration of the loop (lines 180-196): the next slice of at most
\* report_slice_size rows is counted, written, counted again and reported
WriteSlice ==
    /\ pc = "report"
    /\ written < df_ngram_summary
    /\ \E height \in {IF df_ngram_summary - written < report_slice_size
                      THEN df_ngram_summary - written
                      ELSE report_slice_size} :
          /\ written' = written + height
          /\ report_total_processed' = report_total_processed + height + height
          /\ progress' = Append(progress, <<report_total_processed + height + height,
                                            df_ngram_summary>>)
    /\ UNCHANGED <<text, config, pc, processed, extracted, result, excl_cache,
                   comp_cache, fingerprint, calls, ngvars, thvars,
                   df_ngram_summary, report_slice_size>>

\* iter_slices is exhausted: the writer and the reporter are closed
EndReport ==
    /\ pc = "report"
    /\ written = df_ngram_summary
    /\ pc' = "report_done"
    /\ UNCHANGED <<text, config, processed, extracted, result, excl_cache,
                   comp_cache, fingerprint, calls, ngvars, thvars, rpvars>>

NextReport == WriteSlice \/ EndReport

SpecReport == InitReport /\ [][NextReport]_vars

\* ------------------------------------------------------------------------
\* one call in a process where compiling a synthesized pattern may fail
\* ------------------------------------------------------------------------

\* a compile that falls back to no pattern at all
CompileOrNothing(parts, regex_available, tried, fallback) ==
    IF tried[1] \/ (regex_available /\ tried[2]) THEN parts ELSE <<>>

\* the try statements of patterns.py:228-241 and 285-295: tried is the pair
\* of outcomes of REGEX_MODULE.compile and of the second attempt, re.compile,
\* which is made only when the regex module is the one installed
CompileOrFallback(parts, regex_available, tried, fallback) ==
    IF tried[1] \/ (regex_available /\ tried[2]) THEN parts ELSE fallback

\* get_exclusion_pattern with its try statement: None when nothing is to be
\* excluded or the pattern does not compile
ExclusionCompiled(cfg, key, cache, comp) ==
    IF Cached(cache, key)
    THEN [pattern |-> Lookup(cache, key), cache |-> cache]
    ELSE \* bound once, used twice
         LET built == IF ExclusionParts(cfg) = <<>> THEN <<>>
                      ELSE CompileOrFallback(ExclusionParts(cfg),
                               comp.regex_available, comp.exclusion, <<>>)
         IN  [pattern |-> built, cache |-> cache \cup {<<key, built>>}]

\* get_comprehensive_pattern with its try statement: the catch-all when the
\* pattern does not compile
ComprehensiveCompiled(cfg, key, cache, comp) ==
    IF Cached(cache, key)
    THEN [raised |-> FALSE, pattern |-> Lookup(cache, key), cache |-> cache]
    ELSE IF cfg.extract_cashtags = <<>>
    THEN [raised |-> TRUE, pattern |-> <<>>, cache |-> cache]
    ELSE LET built == CompileOrFallback(ComprehensiveParts(cfg),
                          comp.regex_available, comp.comprehensive, CatchAll)
         IN  [raised |-> FALSE, pattern |-> built,
              cache |-> cache \cup {<<key, built>>}]

\* _extract_tokens_ordered over the two functions above
ExtractCompiling(txt, language_family, cfg, key, excl, comp, cmp) ==
    IF Strip(txt) = <<>>
    THEN [status |-> "returned", tokens |-> <<>>, excl |-> excl, comp |-> comp]
    ELSE LET ex == ExclusionCompiled(cfg, key, excl, cmp)
             t2 == Excluded(txt, ex.pattern)
         IN  IF Strip(t2) = <<>>
             THEN [status |-> "returned", tokens |-> <<>>, excl |-> ex.cache,
                   comp |-> comp]
             ELSE LET cp == ComprehensiveCompiled(cfg, key, comp, cmp)
                  IN  IF cp.raised
                      THEN [status |-> "raised", tokens |-> <<>>,
                            excl |-> ex.cache, comp |-> cp.cache]
                      ELSE [status |-> "returned",
                            tokens |-> Extracted(t2, cp.pattern, language_family),
                            excl |-> ex.cache, comp |-> cp.cache]

\* a.aa a    #a ?    a
CompileTexts ==
    {Cells(<<97, 46, 97, 97, 32, 97>>), Cells(<<35, 97, 32, 63>>),
     Cells(<<97>>)}

CompileConfigs == ConfigsOver({"include_urls"}, {<<>>, <<FALSE>>})

Compilers ==
    [regex_available : BOOLEAN, exclusion : BOOLEAN \X BOOLEAN,
     comprehensive : BOOLEAN \X BOOLEAN]

InitCompile ==
    /\ text \in CompileTexts
    /\ config \in CompileConfigs
    /\ compiler \in Compilers
    /\ pc = "tokenize"
    /\ processed = <<>>
    /\ extracted = <<>>
    /\ result = <<>>
    /\ excl_cache = {}
    /\ comp_cache = {}
    /\ fingerprint = {}
    /\ calls = 1
    /\ threads = <<>>
    /\ _global_patterns = 0
    /\ NoReport
    /\ NoFrame

\* tokenize, line 69, the patterns being compiled by this process's compiler
ExtractTokensCompiling ==
    /\ pc = "extract"
    /\ \E key \in KeysFor(config) :
          \E ext \in {ExtractCompiling(processed, "mixed", config, key,
                                       excl_cache, comp_cache, compiler)} :
              /\ excl_cache' = ext.excl
              /\ comp_cache' = ext.comp
              /\ fingerprint' = IF Strip(processed) = <<>> THEN fingerprint
                                ELSE fingerprint \cup {<<config, key>>}
              /\ extracted' = ext.tokens
              /\ pc' = IF ext.status = "raised" THEN "raised" ELSE "postprocess"
    /\ UNCHANGED <<text, config, processed, result, calls, ngvars, thvars,
                   rpvars>>

NextCompile == Preprocess \/ ExtractTokensCompiling \/ Postprocess

SpecCompile == InitCompile /\ [][NextCompile]_vars

\* ------------------------------------------------------------------------
\* several threads, each constructing a tokenizer and calling tokenize once;
\* a step is one bytecode-level access to the module globals
\* ------------------------------------------------------------------------

NumThreads == 2

Threads == 1..NumThreads

\* a.aa a, a.aa
ThreadTexts == {Cells(<<97, 46, 97, 97, 32, 97>>), Cells(<<97, 46, 97, 97>>)}

ThreadConfigs == ConfigsOver({"include_urls"}, {<<>>, <<FALSE>>})

\* cache[cache_key] = pattern
Store(cache, key, pattern) ==
    {e \in cache : e[1] # key} \cup {<<key, pattern>>}

\* tokenizer.py:151-160: the exclusion pattern returned is applied, and
\* the call returns [] when nothing is left
Excluding(th, pattern) ==
    IF Strip(Excluded(_preprocess_text(th.text, th.config), pattern)) = <<>>
    THEN [th EXCEPT !.exclusion = pattern, !.pc = "done"]
    ELSE [th EXCEPT !.exclusion = pattern, !.pc = "comprehensive"]

\* empty caches, _global_patterns is None, no thread has started
InitThreads ==
    /\ threads \in [Threads -> [text : ThreadTexts, config : ThreadConfigs,
                                pc : {"init"}, patterns : {0},
                                cache_key : {0}, exclusion : {<<>>},
                                comprehensive : {<<>>}, result : {<<>>}]]
    /\ _global_patterns = 0
    /\ Compiles
    /\ excl_cache = {}
    /\ comp_cache = {}
    /\ fingerprint = {}
    /\ text = <<>>
    /\ config = DefaultConfig
    /\ pc = "threads"
    /\ processed = <<>>
    /\ extracted = <<>>
    /\ result = <<>>
    /\ calls = 0
    /\ NoFrame
    /\ NoReport

ThreadFrame ==
    UNCHANGED <<text, config, pc, processed, extracted, result, calls, ngvars,
                rpvars, compiler>>

\* get_patterns, line 361: if _global_patterns is None
GetPatterns(t) ==
    /\ threads[t].pc = "init"
    /\ threads' = [threads EXCEPT ![t].pc =
                       IF _global_patterns = 0 THEN "construct" ELSE "return"]
    /\ UNCHANGED <<_global_patterns, excl_cache, comp_cache, fingerprint>>
    /\ ThreadFrame

\* line 362: _global_patterns = TokenizerPatterns()
Construct(t) ==
    /\ threads[t].pc = "construct"
    /\ _global_patterns' = t
    /\ threads' = [threads EXCEPT ![t].pc = "return"]
    /\ UNCHANGED <<excl_cache, comp_cache, fingerprint>>
    /\ ThreadFrame

\* line 363: return _global_patterns, kept as self._patterns
\* (tokenizer.py:33); tokenize then runs to the call of
\* get_exclusion_pattern (tokenizer.py:60-150)
ReturnPatterns(t) ==
    /\ threads[t].pc = "return"
    /\ threads' = [threads EXCEPT ![t].patterns = _global_patterns,
                                  ![t].pc = "exclusion"]
    /\ UNCHANGED <<_global_patterns, excl_cache, comp_cache, fingerprint>>
    /\ ThreadFrame

\* get_exclusion_pattern, lines 263-264: the key, and the test of the cache
ExclusionTest(t) ==
    /\ threads[t].pc = "exclusion"
    /\ \E key \in KeysFor(threads[t].config) :
          /\ fingerprint' = fingerprint \cup {<<threads[t].config, key>>}
          /\ threads' = [threads EXCEPT ![t].cache_key = key,
                             ![t].pc = IF Cached(excl_cache, key)
                                       THEN "exclusion_hit"
                                       ELSE "exclusion_miss"]
    /\ UNCHANGED <<_global_patterns, excl_cache, comp_cache>>
    /\ ThreadFrame

\* line 265: return _exclusion_pattern_cache[cache_key]
ExclusionHit(t) ==
    /\ threads[t].pc = "exclusion_hit"
    /\ threads' = [threads EXCEPT ![t] =
                       Excluding(@, Lookup(excl_cache, threads[t].cache_key))]
    /\ UNCHANGED <<_global_patterns, excl_cache, comp_cache, fingerprint>>
    /\ ThreadFrame

\* lines 267-299: the pattern is built, stored and returned
ExclusionMiss(t) ==
    /\ threads[t].pc = "exclusion_miss"
    /\ excl_cache' = Store(excl_cache, threads[t].cache_key,
                           ExclusionParts(threads[t].config))
    /\ threads' = [threads EXCEPT ![t] =
                       Excluding(@, ExclusionParts(threads[t].config))]
    /\ UNCHANGED <<_global_patterns, comp_cache, fingerprint>>
    /\ ThreadFrame

\* tokenizer.py:162 and get_comprehensive_pattern, lines 187-188
ComprehensiveTest(t) ==
    /\ threads[t].pc = "comprehensive"
    /\ \E key \in KeysFor(threads[t].config) :
          /\ fingerprint' = fingerprint \cup {<<threads[t].config, key>>}
          /\ threads' = [threads EXCEPT ![t].cache_key = key,
                             ![t].pc = IF Cached(comp_cache, key)
                                       THEN "comprehensive_hit"
                                       ELSE "comprehensive_miss"]
    /\ UNCHANGED <<_global_patterns, excl_cache, comp_cache>>
    /\ ThreadFrame

\* line 189: return _comprehensive_pattern_cache[cache_key]
ComprehensiveHit(t) ==
    /\ threads[t].pc = "comprehensive_hit"
    /\ threads' = [threads EXCEPT
                       ![t].comprehensive =
                           Lookup(comp_cache, threads[t].cache_key),
                       ![t].pc = "findall"]
    /\ UNCHANGED <<_global_patterns, excl_cache, comp_cache, fingerprint>>
    /\ ThreadFrame

\* lines 191-245: the pattern is built (line 208 raises when the attribute
\* is not defined), stored and returned
ComprehensiveMiss(t) ==
    /\ threads[t].pc = "comprehensive_miss"
    /\ IF threads[t].config.extract_cashtags = <<>>
       THEN /\ threads' = [threads EXCEPT ![t].pc = "raised"]
            /\ UNCHANGED comp_cache
       ELSE /\ comp_cache' = Store(comp_cache, threads[t].cache_key,
                                   ComprehensiveParts(threads[t].config))
            /\ threads' = [threads EXCEPT
                               ![t].comprehensive =
                                   ComprehensiveParts(threads[t].config),
                               ![t].pc = "findall"]
    /\ UNCHANGED <<_global_patterns, excl_cache, fingerprint>>
    /\ ThreadFrame

\* the rest of the call, which touches no shared state: the comprehensive
\* pattern finds the tokens in the text left by the exclusion pattern
\* (tokenizer.py:165-173) and tokenize post-processes them (line 72)
FindTokens(t) ==
    /\ threads[t].pc = "findall"
    /\ \E th \in {threads[t]} :
          \E txt \in {Excluded(_preprocess_text(th.text, th.config),
                               th.exclusion)} :
              threads' = [threads EXCEPT
                  ![t].result =
                      BasicPostprocess(Extracted(txt, th.comprehensive, "mixed"),
                                       th.config),
                  ![t].pc = "done"]
    /\ UNCHANGED <<_global_patterns, excl_cache, comp_cache, fingerprint>>
    /\ ThreadFrame

NextThreads ==
    \E t \in Threads :
        \/ GetPatterns(t)
        \/ Construct(t)
        \/ ReturnPatterns(t)
        \/ ExclusionTest(t)
        \/ ExclusionHit(t)
        \/ ExclusionMiss(t)
        \/ ComprehensiveTest(t)
        \/ ComprehensiveHit(t)
        \/ ComprehensiveMiss(t)
        \/ FindTokens(t)

SpecThreads == InitThreads /\ [][NextThreads]_vars

\* ------------------------------------------------------------------------
\* Properties
\* ------------------------------------------------------------------------

Increasing(s) == \A i \in 1..(Len(s) - 1) : s[i] < s[i + 1]

\* C1: the characters of the tokens returned by tokenize, read token by
\* token, come from strictly increasing positions of the source text:
\* extraction, URL clean-up, script splitting and post-filtering rewrite,
\* split or drop tokens but never reorder them.
OrderPreserved ==
    /\ pc \in {"postprocess", "done"} => Increasing(Origins(Concat(extracted)))
    /\ pc = "done" => Increasing(Origins(Concat(result)))

\* a call that returned at least three tokens, one of them an entity or word
\* of several characters and one a single character split off a
\* character-level run
OrderWitness ==
    /\ pc = "done"
    /\ Len(result) >= 3
    /\ \E i \in DOMAIN result : Len(result[i]) > 1
    /\ \E i \in DOMAIN result :
          Len(result[i]) = 1 /\ _is_char_level_script(result[i][1][1])

\* the maximal runs of t from position i on, a run being made either of
\* character-level-script characters only or of other characters only; the
\* run in progress starts at position b
RECURSIVE RunPieces(_, _, _)
RunPieces(t, b, i) ==
    IF i > Len(t)
    THEN IF _is_char_level_script(t[b][1]) THEN [j \in 1..(i - b) |-> <<t[b + j - 1]>>]
         ELSE <<SubSeq(t, b, i - 1)>>
    ELSE IF _is_char_level_script(t[i][1]) = _is_char_level_script(t[b][1])
         THEN RunPieces(t, b, i + 1)
         ELSE (IF _is_char_level_script(t[b][1])
               THEN [j \in 1..(i - b) |-> <<t[b + j - 1]>>]
               ELSE <<SubSeq(t, b, i - 1)>>) \o RunPieces(t, i, i + 1)

\* C2 as stated: splitting a token emits every character of a
\* character-level script as its own token and every adjacent run of other
\* characters as one token, in order.
SplitsEveryRun == pc = "split_done" => result = RunPieces(text, 1, 2)

\* the token mixes ASCII letters with character-level characters and is not
\* a social-media entity
KeptIntact(t) ==
    /\ \E i \in DOMAIN t : t[i][1] \in (65..90) \cup (97..122)
    /\ \E i \in DOMAIN t : _is_char_level_script(t[i][1])
    /\ t[1][1] \notin {64, 35, 36}

\* C2 as amended: the same, except that a token mixing ASCII letters with
\* character-level characters and not starting with @, # or $ is returned
\* whole.
SplitsEveryRunUnlessMixed ==
    pc = "split_done" =>
        result = IF KeptIntact(text) THEN <<text>> ELSE RunPieces(text, 1, 2)

\* a token whose character-level run of three characters became three
\* tokens while its other characters stayed together
SplitWitness ==
    /\ pc = "split_done"
    /\ Len(text) = 4
    /\ Len(result) = 4
    /\ \A i \in 2..4 : _is_char_level_script(text[i][1])
    /\ ~_is_char_level_script(text[1][1])

\* the call has ended, by returning or by raising
Ended == pc \in {"done", "raised"}

IsHangul(cp) == cp \in 44032..55215

\* text.split(" ") without the empty pieces, from position i on; the piece
\* in progress is cur
RECURSIVE SpaceDelimited(_, _, _)
SpaceDelimited(t, i, cur) ==
    IF i > Len(t) THEN (IF cur = <<>> THEN <<>> ELSE <<cur>>)
    ELSE IF t[i][1] = 32
         THEN (IF cur = <<>> THEN <<>> ELSE <<cur>>) \o SpaceDelimited(t, i + 1, <<>>)
         ELSE SpaceDelimited(t, i + 1, Append(cur, t[i]))

\* the cell is part of some returned token
Returned(cell) == \E i \in DOMAIN result : \E j \in DOMAIN result[i] : result[i][j] = cell

\* the two cells are part of the same returned token
Together(c1, c2) ==
    \E i \in DOMAIN result :
        /\ \E j \in DOMAIN result[i] : result[i][j] = c1
        /\ \E j \in DOMAIN result[i] : result[i][j] = c2

\* C3: Hangul syllables are never split at the character level: a text of
\* space-delimited Hangul runs yields exactly one token per run, and two
\* neighbouring Hangul syllables of any text never end in different tokens.
HangulNeverSplit ==
    /\ (Ended /\ text # <<>>
           /\ \A i \in DOMAIN text : IsHangul(text[i][1]) \/ text[i][1] = 32)
         => (pc = "done" /\ result = SpaceDelimited(text, 1, <<>>))
    /\ pc = "done" =>
         \A i \in 1..(Len(processed) - 1) :
            (IsHangul(processed[i][1]) /\ IsHangul(processed[i + 1][1])
                /\ (Returned(processed[i]) \/ Returned(processed[i + 1])))
              => Together(processed[i], processed[i + 1])

\* the entities of the pattern in the preprocessed text, as <<first, next>>
Entities(pattern) ==
    LET sp == FindSpans(pattern, processed, 1)
    IN  {sp[j] : j \in DOMAIN sp}

\* the entity's symbol is in no returned token and every character of its
\* word content is
EmittedAsWords(span) ==
    /\ ~Returned(processed[span[1]])
    /\ \A k \in (span[1] + 1)..(span[2] - 1) : Returned(processed[k])

\* C4: with extract_hashtags (extract_mentions) false, a hashtag #w
\* (mention @w) of the text is not emitted as an entity token: the call
\* returns the word content w as word tokens without the symbol.
EntitiesSplitIntoWords ==
    /\ (Ended /\ ~config.extract_hashtags /\ Entities(HASHTAG_PATTERN) # {})
         => (pc = "done" /\ \A sp \in Entities(HASHTAG_PATTERN) : EmittedAsWords(sp))
    /\ (Ended /\ ~config.extract_mentions /\ Entities(MENTION_PATTERN) # {})
         => (pc = "done" /\ \A sp \in Entities(MENTION_PATTERN) : EmittedAsWords(sp))

\* the URLs of the text when URLs are disabled and the email addresses when
\* emails are, as <<first, next>>
DisabledEntities ==
    (IF config.include_urls THEN {} ELSE Entities(URL_PATTERN))
        \cup (IF config.include_emails THEN {} ELSE Entities(EMAIL_PATTERN))

\* the text with every character of a disabled entity replaced by a space
Blanked ==
    [i \in DOMAIN text |->
        IF \E sp \in DisabledEntities :
              \E k \in sp[1]..(sp[2] - 1) : processed[k][2] = text[i][2]
        THEN <<32, text[i][2]>> ELSE text[i]]

\* C5: with include_urls (include_emails) false every URL (email address)
\* of the text disappears entirely: no returned token holds a character of
\* it, and the call ends as the call on the text with those entities
\* replaced by spaces does.
DisabledEntitiesVanish ==
    /\ pc = "done" =>
         \A sp \in DisabledEntities :
            \A k \in sp[1]..(sp[2] - 1) : ~Returned(processed[k])
    /\ (Ended /\ DisabledEntities # {}) =>
         LET other == tokenize(Blanked, config, 0, {}, {})
         IN  /\ (pc = "done") = (other.status = "returned")
             /\ Strs(result) = Strs(other.tokens)

\* C6 as stated: with include_emoji false no returned token contains a code
\* point of the emoji ranges, whichever path produced the token.
NoEmojiCodePoint ==
    (pc = "done" /\ ~config.include_emoji) =>
        \A i \in DOMAIN result : \A j \in DOMAIN result[i] :
            ~InRanges(result[i][j][1], EMOJI_RANGES)

\* C6 as amended: with include_emoji false no returned token is made of
\* emoji code points and emoji modifiers only.
NoEmojiToken ==
    (pc = "done" /\ ~config.include_emoji) =>
        \A i \in DOMAIN result :
            \E j \in DOMAIN result[i] :
                ~(InRanges(result[i][j][1], EMOJI_RANGES) \/ is_modifier(result[i][j][1]))

\* the zero-match fallback produced a token of two or more emoji code points
\* and modifiers, and the call returned without it
EmojiWitness ==
    /\ pc = "done"
    /\ ~config.include_emoji
    /\ Len(extracted) = 1
    /\ Len(extracted[1]) >= 2
    /\ \E j \in DOMAIN extracted[1] : InRanges(extracted[1][j][1], EMOJI_RANGES)
    /\ \A j \in DOMAIN extracted[1] :
          InRanges(extracted[1][j][1], EMOJI_RANGES) \/ is_modifier(extracted[1][j][1])
    /\ result = <<>>

\* no token can pass both limits
Degenerate(cfg) ==
    /\ cfg.max_token_length # <<>>
    /\ cfg.min_token_length > cfg.max_token_length[1] \/ cfg.max_token_length[1] = 0

\* C7: every returned token is non-empty, at least min_token_length and,
\* when max_token_length is set, at most max_token_length long; a call under
\* a configuration with min_token_length > max_token_length or
\* max_token_length = 0 ends without error and returns the empty list.
LengthsWithinLimits ==
    /\ pc = "done" =>
         \A i \in DOMAIN result :
            /\ Len(result[i]) >= 1
            /\ Len(result[i]) >= config.min_token_length
            /\ config.max_token_length # <<>>
                  => Len(result[i]) <= config.max_token_length[1]
    /\ (Ended /\ Degenerate(config)) => (pc = "done" /\ result = <<>>)

\* a is b with some elements left out
RECURSIVE IsSubsequence(_, _)
IsSubsequence(a, b) ==
    IF a = <<>> THEN TRUE
    ELSE IF b = <<>> THEN FALSE
    ELSE IF Head(a) = Head(b) THEN IsSubsequence(Tail(a), Tail(b))
    ELSE IsSubsequence(a, Tail(b))

\* the tokens a call on the same text returns under the configuration with
\* min_token_length m and nothing else changed
WithMin(m) ==
    tokenize(text, [config EXCEPT !.min_token_length = m], 0, {}, {}).tokens

\* C8: for a fixed text and otherwise fixed configuration the result for a
\* larger min_token_length is a subsequence of the result for a smaller one,
\* so it never has more tokens.
MinLengthMonotone ==
    pc = "done" =>
        \A m \in MinLengths :
            m > config.min_token_length =>
                /\ IsSubsequence(WithMin(m), result)
                /\ Len(WithMin(m)) <= Len(result)

\* raising min_token_length from 1 to 2 drops some of the returned tokens
\* and keeps others
MinLengthWitness ==
    /\ pc = "done"
    /\ config.min_token_length = 1
    /\ config.max_token_length = <<>>
    /\ WithMin(2) # <<>>
    /\ Len(WithMin(2)) < Len(result)
    /\ WithMin(0) = result

\* C9: tokenize is deterministic: a call ends as the first call of a fresh
\* process on the same text and configuration does, whatever calls came
\* before and whatever they left in the pattern caches.
Deterministic ==
    Ended =>
        LET fresh == tokenize(text, config, 0, {}, {})
        IN  /\ (pc = "done") = (fresh.status = "returned")
            /\ result = fresh.tokens

\* the n-grams of a length in lo..hi that occur in the token sequence
Occurring(tokens, lo, hi) ==
    {SubSeq(tokens, i, i + n - 1) : <<i, n>> \in
        {q \in (1..Len(tokens)) \X (lo..hi) : q[1] + q[2] - 1 <= Len(tokens)}}

\* the number of rows of the message-to-n-gram table equal to r
Times(r) == Cardinality({i \in DOMAIN ngram_rows : ngram_rows[i] = r})

\* C10: in the table produced by _extract_ngrams_from_messages each pair of
\* message and n-gram id occurs at most once, and exactly once if and only
\* if an n-gram of that id and of a length in min_n..max_n occurs in the
\* tokens of the message.
PairsOncePerMessage ==
    pc = "extracted" =>
        \A i \in DOMAIN df_input :
            LET tokens == Strs(tokenize(Cells(df_input[i].message_text), config,
                                        0, {}, {}).tokens)
                present == {serialize_ngram(g) : g \in Occurring(tokens, min_n, max_n)}
            IN  /\ \A e \in ngrams_by_id :
                      Times([message_surrogate_id |-> df_input[i].message_surrogate_id,
                             ngram_id |-> e[2]])
                        = IF e[1] \in present THEN 1 ELSE 0
                /\ \A g \in present : \E e \in ngrams_by_id : e[1] = g

\* the number of places of the token sequence where the serialized n-gram
\* occurs with a length in lo..hi
Places(tokens, serialized, lo, hi) ==
    Cardinality({q \in (1..Len(tokens)) \X (lo..hi) :
                    /\ q[1] + q[2] - 1 <= Len(tokens)
                    /\ serialize_ngram(SubSeq(tokens, q[1], q[1] + q[2] - 1)) = serialized})

\* a table was produced from two messages that have an n-gram in common,
\* one of them twice: the table has one row for it per message
PairsWitness ==
    /\ pc = "extracted"
    /\ Len(df_input) = 2
    /\ \E e \in ngrams_by_id :
          /\ \A i \in DOMAIN df_input :
                Times([message_surrogate_id |-> df_input[i].message_surrogate_id,
                       ngram_id |-> e[2]]) = 1
          /\ \E i \in DOMAIN df_input :
                Places(Strs(tokenize(Cells(df_input[i].message_text), config,
                                     0, {}, {}).tokens),
                       e[1], min_n, max_n) = 2

\* the n-grams, as token sequences, of the first n messages of df_input
OccurringIn(n) ==
    UNION {Occurring(Strs(tokenize(Cells(df_input[i].message_text), config, 0,
                                   {}, {}).tokens), min_n, max_n) :
               i \in 1..n}

\* the id an occurrence of the n-gram carries in the rows yielded
CarriedId(ngram) == IdOf(ngrams_by_id, serialize_ngram(ngram))

\* C11: once the extractor has gone through the messages, two n-gram
\* occurrences carry the same ngram_id exactly when their token sequences
\* are the same, and the ids given are 0..k-1 for the k distinct n-grams
IdsIdentifyNgrams ==
    pc = "extracted" =>
        LET grams == OccurringIn(Len(df_input))
        IN  /\ \A g1, g2 \in grams : CarriedId(g1) = CarriedId(g2) <=> g1 = g2
            /\ {e[2] : e \in ngrams_by_id} = 0..(Cardinality(grams) - 1)

\* the windows of a list of len tokens: 0-based start and length
Windows(len, lo, hi) ==
    {w \in (0..len) \X (lo..hi) : w[1] + w[2] <= len}

\* the 1-based position of window w among ws ordered by start, then length
Rank(w, ws) ==
    1 + Cardinality({v \in ws : v[1] < w[1] \/ (v[1] = w[1] /\ v[2] < w[2])})

\* C12: for 1 <= min <= max, ngrams yields the slice tokens[i:i+n] of every
\* start i and length n with min <= n <= max and i + n <= len(tokens), each
\* window once, ordered by start and then by length, and nothing else
SlidesEveryWindow ==
    (pc = "ngrams_done" /\ min_n <= max_n) =>
        LET ws == Windows(Len(result), min_n, max_n)
        IN  /\ Len(ngram_rows) = Cardinality(ws)
            /\ \A w \in ws :
                  ngram_rows[Rank(w, ws)] = SubSeq(result, w[1] + 1, w[1] + w[2])
            /\ \A k \in DOMAIN ngram_rows :
                  min_n <= Len(ngram_rows[k]) /\ Len(ngram_rows[k]) <= max_n
            /\ Len(result) < min_n => ngram_rows = <<>>

\* windows of two lengths were taken at two starts of a list
WindowWitness ==
    /\ pc = "ngrams_done"
    /\ min_n < max_n
    /\ Len(result) > max_n
    /\ Len(ngram_rows) >= 4

\* the messages the occurrence table lists for the n-gram
MessagesOf(id) ==
    {ngram_rows[i].message_surrogate_id :
        i \in {j \in DOMAIN ngram_rows : ngram_rows[j].ngram_id = id}}

\* the authors of the messages
AuthorsOf(messages) ==
    {df_input[i].author_id :
        i \in {j \in DOMAIN df_input : df_input[j].message_surrogate_id \in messages}}

\* C13: _compute_ngram_statistics returns one row for exactly the n-grams
\* that occur in more than one message; total_reps is the number of messages
\* that contain the n-gram, distinct_posters the number of distinct authors
\* of those messages, and 1 <= distinct_posters <= total_reps
StatisticsCountMessages ==
    pc = "stats_done" =>
        /\ \A id \in StatIds :
              LET rows == {r \in ngram_stats : r.ngram_id = id}
              IN  IF Cardinality(MessagesOf(id)) > 1
                  THEN rows = {[ngram_id |-> id,
                                total_reps |-> Cardinality(MessagesOf(id)),
                                distinct_posters |->
                                    Cardinality(AuthorsOf(MessagesOf(id)))]}
                  ELSE rows = {}
        /\ \A r \in ngram_stats :
              /\ r.ngram_id \in StatIds
              /\ 1 <= r.distinct_posters
              /\ r.distinct_posters <= r.total_reps

\* of three n-grams one is in two messages of different authors, one in a
\* single message, and one in two messages: two rows are returned
StatisticsWitness ==
    /\ pc = "stats_done"
    /\ Cardinality(MessagesOf(0)) = 2
    /\ Cardinality(AuthorsOf(MessagesOf(0))) = 2
    /\ Cardinality(MessagesOf(1)) = 1
    /\ Cardinality(MessagesOf(2)) = 2
    /\ Cardinality(ngram_stats) = 2

\* some returned token starts with the entity's sigil and goes on with the
\* first character of its body
StartsToken(span) ==
    \E i \in DOMAIN result :
        /\ Len(result[i]) >= 2
        /\ result[i][1] = processed[span[1]]
        /\ result[i][2] = processed[span[1] + 1]

\* C14: with extract_hashtags (extract_mentions) true, every hashtag
\* (mention) of the text, in any script, yields a token that starts with the
\* sigil followed by characters of the body: the sigil is neither a token
\* of its own nor cut off from its body.
SigilsKeepTheirBody ==
    /\ (Ended /\ config.extract_hashtags /\ Entities(HASHTAG_PATTERN) # {})
         => (pc = "done" /\ \A sp \in Entities(HASHTAG_PATTERN) : StartsToken(sp))
    /\ (Ended /\ config.extract_mentions /\ Entities(MENTION_PATTERN) # {})
         => (pc = "done" /\ \A sp \in Entities(MENTION_PATTERN) : StartsToken(sp))

\* the span of the preprocessed text is one of the returned tokens
ReturnedWhole(span) ==
    \E i \in DOMAIN result : result[i] = SubSeq(processed, span[1], span[2] - 1)

\* C15: with include_urls and include_emails both true, every email address
\* local-part@domain.tld of the text is returned as exactly one token equal
\* to the address: no other alternative consumes a part of it.
EmailsAreOneToken ==
    (Ended /\ config.include_urls /\ config.include_emails
         /\ Entities(EMAIL_PATTERN) # {})
      => (pc = "done" /\ \A sp \in Entities(EMAIL_PATTERN) : ReturnedWhole(sp))

IsAsciiLetter(cp) == (65 <= cp /\ cp <= 90) \/ (97 <= cp /\ cp <= 122)

IsIdeograph(cp) == (19968 <= cp /\ cp <= 40959) \/ (13312 <= cp /\ cp <= 19903)

\* the whitespace-delimited runs of the preprocessed text that are a Latin
\* word immediately followed by ideographs: <<first, last letter, last>>
BrandRuns ==
    {r \in (DOMAIN processed) \X (DOMAIN processed) \X (DOMAIN processed) :
        /\ r[1] <= r[2] /\ r[2] < r[3]
        /\ r[1] = 1 \/ IsSpace(processed[r[1] - 1][1])
        /\ r[3] = Len(processed) \/ IsSpace(processed[r[3] + 1][1])
        /\ \A m \in r[1]..r[2] : IsAsciiLetter(processed[m][1])
        /\ \A m \in (r[2] + 1)..r[3] : IsIdeograph(processed[m][1])}

EmojiSequences ==
    {sp \in (DOMAIN processed) \X (2..(Len(processed) + 1)) :
        /\ sp[1] < sp[2]
        /\ InRanges(processed[sp[1]][1], EMOJI_RANGES)
        /\ ~is_modifier(processed[sp[1]][1])
        /\ \A m \in (sp[1] + 1)..(sp[2] - 1) : is_modifier(processed[m][1])
        /\ sp[2] = Len(processed) + 1 \/ ~is_modifier(processed[sp[2]][1])}

\* C17: with include_emoji true, each emoji of the text is returned as one
\* token; an emoji followed by modifiers (variation selector, skin tone,
\* ZWJ) is one token with its modifiers, neither broken up nor stripped.
EmojiSequencesAtomic ==
    (Ended /\ config.include_emoji /\ EmojiSequences # {})
      => (pc = "done" /\ \A sp \in EmojiSequences : ReturnedWhole(sp))

\* C18: TokenizerConfig carries an extract_cashtags option, false by
\* default; a tokenizer built with extract_cashtags = true tokenizes without
\* error and returns each cashtag of the text as one token with its '$',
\* and with the default configuration no cashtag is returned as a token.
CashtagOption ==
    /\ (Ended /\ config = TokenizerConfig(<<>>))
         => config.extract_cashtags = <<FALSE>>
    /\ (Ended /\ config = TokenizerConfig([extract_cashtags |-> TRUE])
              /\ Entities(CASHTAG_PATTERN) # {})
         => (pc = "done" /\ \A sp \in Entities(CASHTAG_PATTERN) : ReturnedWhole(sp))
    /\ (Ended /\ config = TokenizerConfig(<<>>)
              /\ Entities(CASHTAG_PATTERN) # {})
         => (pc = "done" /\ \A sp \in Entities(CASHTAG_PATTERN) : ~ReturnedWhole(sp))

\* C19: for every text and every configuration TokenizerConfig can build,
\* the default one included, tokenize completes without raising and returns
\* a list: every option read while the patterns are built is defined.
TokenizeNeverRaises ==
    config \in {TokenizerConfig(kw) : kw \in CashKwargs} => pc # "raised"

\* C20: for None, the empty string and whitespace-only text, under every
\* configuration and through BasicTokenizer.tokenize and tokenize_text
\* alike, the call never raises and what it returns is the empty list.
MissingInputIsEmpty ==
    (text = None \/ \A i \in DOMAIN text : IsSpace(text[i][1]))
      => (pc # "raised" /\ (pc = "done" => result = <<>>))

\* tokenize_text returned for a text of ideographic spaces that is not
\* normalized, under a configuration that excludes URLs
MissingWitness ==
    /\ pc = "done"
    /\ calls = 1
    /\ NoThreads
    /\ Compiles
    /\ NoReport
    /\ Len(processed) >= 2
    /\ \A i \in DOMAIN processed : processed[i][1] = 12288
    /\ config = [TokenizerConfig(<<>>) EXCEPT !.normalize_unicode = FALSE,
                                              !.include_urls = FALSE]

\* C21: pattern memoization is sound: whatever calls came before, the
\* pattern a cache holds under the fingerprint of a configuration is the
\* pattern a fresh build from that configuration produces, never one built
\* for another configuration.
MemoizationSound ==
    \A e \in fingerprint :
        /\ Cached(excl_cache, e[2])
             => Lookup(excl_cache, e[2]) = ExclusionParts(e[1])
        /\ (Cached(comp_cache, e[2]) /\ e[1].extract_cashtags # <<>>)
             => Lookup(comp_cache, e[2]) = ComprehensiveParts(e[1])

\* C22: threads calling tokenize concurrently without locking, from empty
\* caches and no global pattern set: every call ends as a sequential call
\* in a fresh process ends, with the same tokens, the patterns it obtained
\* are those of a fresh build for its own configuration, and no cache ever
\* holds a wrong entry or two entries for a key.
ThreadsAgreeWithSequential ==
    /\ MemoizationSound
    /\ \A c \in {excl_cache, comp_cache} : \A e1, e2 \in c :
           e1[1] = e2[1] => e1 = e2
    /\ \A t \in DOMAIN threads :
           LET th == threads[t]
               fresh == tokenize(th.text, th.config, 0, {}, {})
           IN  /\ th.pc = "raised" => fresh.status = "raised"
               /\ th.pc = "done" =>
                    /\ fresh.status = "returned"
                    /\ th.result = fresh.tokens
                    /\ th.exclusion = ExclusionParts(th.config)
                    /\ th.comprehensive # <<>>
                         => th.comprehensive = ComprehensiveParts(th.config)
                    /\ th.patterns # 0

\* the decomposed rendering of a string: é and É written as the letter
\* followed by U+0301
RECURSIVE Decomposed(_)
Decomposed(s) ==
    IF s = <<>> THEN <<>>
    ELSE (CASE s[1] = 233 -> <<101, 769>>
            [] s[1] = 201 -> <<69, 769>>
            [] OTHER -> <<s[1]>>) \o Decomposed(Tail(s))

\* C23: with normalize_unicode enabled, a text and its decomposed rendering
\* (hence any two renderings of one string) are tokenized alike: the calls
\* end the same way and return the same token strings.
RenderingsTokenizeAlike ==
    (Ended /\ config.normalize_unicode) =>
        LET other == tokenize(Cells(Decomposed(Str(text))), config, 0, {}, {})
        IN  /\ (pc = "done") = (other.status = "returned")
            /\ Strs(result) = Strs(other.tokens)

\* a returned call on a text with a composed letter, whose tokens would
\* differ from those of the decomposed rendering were neither normalized
RenderingsWitness ==
    /\ pc = "done"
    /\ config.normalize_unicode
    /\ result # <<>>
    /\ \E i \in DOMAIN text : text[i][1] = 233
    /\ LET plain == [config EXCEPT !.normalize_unicode = FALSE]
       IN  Strs(tokenize(text, plain, 0, {}, {}).tokens)
             # Strs(tokenize(Cells(Decomposed(Str(text))), plain, 0, {}, {}).tokens)

\* the features in their priority order, and the option that enables each
PriorityOrder ==
    <<"url", "email", "mention", "hashtag", "cashtag", "emoji", "numeric",
      "word", "punctuation">>

EnabledIn(cfg, feature) ==
    CASE feature = "url" -> cfg.include_urls
      [] feature = "email" -> cfg.include_emails
      [] feature = "mention" -> cfg.extract_mentions
      [] feature = "hashtag" -> cfg.extract_hashtags
      [] feature = "cashtag" -> cfg.extract_cashtags = <<TRUE>>
      [] feature = "emoji" -> cfg.include_emoji
      [] feature = "numeric" -> cfg.include_numeric
      [] feature = "word" -> TRUE
      [] feature = "punctuation" -> cfg.include_punctuation

\* C24: the comprehensive pattern built for a configuration is the
\* alternation of exactly the enabled features in the order URL, email,
\* mention, hashtag, cashtag, emoji, numeric, word, punctuation, word always
\* among them; the exclusion pattern is the alternation of exactly the
\* disabled ones among URL, email and numeric, and is None exactly when all
\* three are enabled; each of the three is in exactly one of the patterns.
PatternsFollowOptions ==
    /\ \A e \in comp_cache :
          /\ e[2] = SelectSeq(PriorityOrder, LAMBDA f : EnabledIn(config, f))
          /\ \E i \in DOMAIN e[2] : e[2][i] = "word"
    /\ \A e \in excl_cache :
          /\ e[2] = SelectSeq(<<"url", "email", "numeric">>,
                              LAMBDA f : ~EnabledIn(config, f))
          /\ e[2] = <<>> <=> (config.include_urls /\ config.include_emails
                                  /\ config.include_numeric)
    /\ \A e \in excl_cache : \A c \in comp_cache :
          \A f \in {"url", "email", "numeric"} :
              (\E i \in DOMAIN e[2] : e[2][i] = f)
                  # (\E i \in DOMAIN c[2] : c[2][i] = f)
    /\ pc \in {"postprocess", "done"} /\ processed # <<>>
          => excl_cache # {} /\ (extracted # <<>> => comp_cache # {})

\* a call has returned tokens under a configuration with cashtags and
\* punctuation enabled and URLs and numbers disabled: both patterns built
PatternsWitness ==
    /\ pc = "done"
    /\ result # <<>>
    /\ config.extract_cashtags = <<TRUE>>
    /\ config.include_punctuation
    /\ ~config.include_urls
    /\ ~config.include_numeric
    /\ config.include_emails
    /\ \E e \in excl_cache : e[2] = <<"url", "numeric">>
    /\ \E c \in comp_cache : Len(c[2]) >= 5

\* the option that enables each token type
OptionOf(feature) ==
    CASE feature = "url" -> "include_urls"
      [] feature = "email" -> "include_emails"
      [] feature = "numeric" -> "include_numeric"
      [] feature = "mention" -> "extract_mentions"
      [] feature = "hashtag" -> "extract_hashtags"
      [] feature = "emoji" -> "include_emoji"

\* the span is a whole whitespace-delimited word of the preprocessed text
Standalone(span) ==
    /\ span[1] = 1 \/ IsSpace(processed[span[1] - 1][1])
    /\ span[2] = Len(processed) + 1 \/ IsSpace(processed[span[2]][1])

\* what the tokens hold of the characters of the span, token by token
PiecesWithin(tokens, span) ==
    LET inside == {processed[k] : k \in span[1]..(span[2] - 1)}
        cut == [i \in DOMAIN tokens |->
                   SelectSeq(tokens[i], LAMBDA cell : cell \in inside)]
    IN  SelectSeq(cut, LAMBDA piece : piece # <<>>)

\* C25: disabling one feature does not affect the others: for two distinct
\* token types T and U with U enabled, the tokens returned for an
\* occurrence of U in the text are the same with T enabled and disabled.
FeaturesIndependent ==
    pc = "done" =>
        \A u \in {"url", "email", "numeric", "mention", "hashtag", "emoji"} :
            \A t \in {"url", "email", "numeric", "mention", "hashtag", "emoji"} \ {u} :
                EnabledIn(config, u) =>
                    LET other == tokenize(text, Flip(config, {OptionOf(t)}),
                                          0, {}, {})
                    IN  \A sp \in Entities(get_pattern(u)) :
                            Standalone(sp) =>
                                PiecesWithin(result, sp)
                                    = PiecesWithin(other.tokens, sp)

\* C26: in the definition table the length of every n-gram is the number
\* of tokens of the n-gram that was serialized, hence within min_n..max_n,
\* whatever token lists the tokenizer returned.
DefinitionLengths ==
    pc = "defined" =>
        \A g \in OccurringIn(Len(df_input)) :
            \E d \in ngram_defs :
                /\ d.ngram_words = serialize_ngram(g)
                /\ d.ngram_length = Len(g)
                /\ min_n <= d.ngram_length /\ d.ngram_length <= max_n

\* the text _extract_tokens_ordered searches, once the excluded entities
\* are blanked
Searched == Excluded(processed, ExclusionParts(config))

\* the comprehensive pattern of the configuration matches nothing in it
NothingMatches ==
    /\ config.extract_cashtags # <<>>
    /\ Strip(Searched) # <<>>
    /\ FindAll(Compiled(ComprehensiveParts(config)), Searched) = <<>>

\* C27: when the comprehensive pattern finds no match in a non-blank text,
\* extraction returns exactly one token, the trimmed text, and tokenize
\* returns that token unless the emoji filter or a length bound drops it.
FallbackIsWholeText ==
    NothingMatches =>
        /\ pc \in {"postprocess", "done"} => extracted = <<Strip(Searched)>>
        /\ pc = "done" =>
             result = IF \/ (~config.include_emoji /\ _is_emoji(Strip(Searched)))
                         \/ Len(Strip(Searched)) < config.min_token_length
                         \/ (config.max_token_length # <<>>
                               /\ Len(Strip(Searched)) > config.max_token_length[1])
                      THEN <<>>
                      ELSE <<Strip(Searched)>>

\* tokenize returned a fallback token that holds a space
FallbackWitness ==
    /\ pc = "done"
    /\ NothingMatches
    /\ result = <<Strip(Searched)>>
    /\ \E i \in DOMAIN result[1] : result[1][i][1] = 32

\* the compile of the named synthesized pattern fails in this process
CompileFails(name) ==
    ~compiler[name][1] /\ ~(compiler.regex_available /\ compiler[name][2])

MaximalOtherRun(piece, token) ==
    \E a \in DOMAIN token : \E b \in a..Len(token) :
        /\ piece = SubSeq(token, a, b)
        /\ \A i \in a..b : ~_is_char_level_script(token[i][1])
        /\ a = 1 \/ _is_char_level_script(token[a - 1][1])
        /\ b = Len(token) \/ _is_char_level_script(token[b + 1][1])

\* C29: for a token without whitespace, the pieces _process_mixed_script_token
\* returns, concatenated in order, are the token, and every piece is the
\* whole token, one character of a character-level script, or a maximal run
\* of other characters.
PiecesPartitionToken ==
    pc = "split_done" /\ (\A i \in DOMAIN text : ~IsSpace(text[i][1])) =>
        /\ Concat(result) = text
        /\ \A k \in DOMAIN result :
              \/ result[k] = text
              \/ Len(result[k]) = 1 /\ _is_char_level_script(result[k][1][1])
              \/ MaximalOtherRun(result[k], text)

\* a hashtag of the letter and two ideographs split into the run "#a" and
\* one piece per ideograph
PiecesWitness ==
    /\ pc = "split_done"
    /\ \A i \in DOMAIN text : ~IsSpace(text[i][1])
    /\ Len(result) = 3
    /\ Len(result[1]) = 2
    /\ result[1] # text
    /\ MaximalOtherRun(result[1], text)
    /\ _is_char_level_script(result[3][1][1])

\* C30: between slices report_total_processed is the number of summary rows
\* written, and the fractions passed to progress.update never decrease,
\* never exceed 1 and end at exactly 1.
ProgressIsFraction ==
    /\ pc \in {"report", "report_done"} => report_total_processed = written
    /\ \A i \in DOMAIN progress : progress[i][1] <= progress[i][2]
    /\ \A i \in 1..(Len(progress) - 1) : progress[i][1] <= progress[i + 1][1]
    /\ pc = "report_done" =>
          progress[Len(progress)][1] = progress[Len(progress)][2]

\* the parts of C30 the double count leaves true: the fractions never
\* decrease, and each is twice the share of the rows written
ProgressIsTwiceTheShare ==
    /\ pc \in {"report", "report_done"} => report_total_processed = 2 * written
    /\ \A i \in 1..(Len(progress) - 1) : progress[i][1] < progress[i + 1][1]
    /\ pc = "report_done" =>
          progress[Len(progress)][1] = 2 * progress[Len(progress)][2]

====
